---- MODULE Spec2Model ----
(***************************************************************************)
(* Model of the data validation and data unification engine of             *)
(* bot_detection: DataValidator (data_validation.py) and DataUnifier       *)
(* (data_unification.py).  Tables are pandas DataFrames: an ordered list   *)
(* of column names, an index length and one sequence of cells per column.  *)
(* pandas semantics are those of pandas 1.x / 2.x (astype(str) turns       *)
(* missing values into the texts "nan" / "None").  The flow of flows.py is  *)
(* modelled task by task, with a clock for datetime.now(); file names are  *)
(* matched as on a case-sensitive file system.                             *)
(***************************************************************************)
EXTENDS Integers, Sequences, FiniteSets, TLC

VARIABLES
    pc,                 \* which call is in progress / has returned
    schema,             \* DatasetSchema given to validate_dataframe
    df,                 \* DataFrame given to validate_dataframe
    file,               \* the file given to validate_file
    dataset_name,       \* validate_file's optional dataset_name argument
    result,             \* the ValidationResult returned
    datasets,           \* List[Tuple[DataFrame, str]] given to the unifier
    resolved_datasets,  \* what resolve_id_conflicts returned
    concatenated,       \* merge_datasets' unified_df right after pd.concat
    unified_df,         \* what merge_datasets returned (or the error raised)
    standardised_df,     \* what standardise_dataset returned (or the error raised)
    name_given,         \* the filename given to _infer_dataset_name
    name_inferred,       \* what _infer_dataset_name returned
    directory,          \* the files under the directory given to validate_directory
    results,             \* the Dict[str, ValidationResult] validate_directory returned
    output_path,        \* the output_path given to save_unified_dataset
    format,             \* its format argument
    df_saved,           \* the DataFrame given to save_unified_dataset
    files,              \* the data files on disk
    dirs,               \* the directories made
    saved_path,          \* the path save_unified_dataset returned (or the error raised)
    tree,               \* the files under the directory given to load_datasets_from_directory
    subdirs,            \* the subdirectories directly inside that directory
    loaded,              \* the List[Tuple[DataFrame, str]] load_datasets_from_directory returned
    downloaded_data,    \* Dict[str, List[Path]] returned by download_datasets_task
    validation_results, \* Dict[str, List[ValidationResult]] returned by validate_datasets_task
    datasets_to_merge,  \* the list unify_datasets_task passes to merge_datasets
    now,                \* the clock read by datetime.now(), in seconds
    unified_path,       \* the path unify_datasets_task returned
    gcs,                \* the objects uploaded to the bucket
    metadata_file,      \* the metadata sidecar written
    steps,              \* the tasks the flow has started, in order
    flow_error          \* the error the flow raised

vars == <<pc, schema, df, file, dataset_name, result,
          datasets, resolved_datasets, concatenated, unified_df, standardised_df,
          name_given, name_inferred,
          directory, results,
          output_path, format, df_saved, files, dirs, saved_path,
          tree, subdirs, loaded,
          downloaded_data, validation_results, datasets_to_merge, now, unified_path, gcs, metadata_file, steps, flow_error>>

inferVars == <<name_given, name_inferred>>

dirVars == <<directory, results>>

saveVars == <<output_path, format, df_saved, files, dirs, saved_path>>

loadVars == <<tree, subdirs, loaded>>

flowVars == <<downloaded_data, validation_results, datasets_to_merge, now, unified_path, gcs, metadata_file, steps, flow_error>>

---------------------------------------------------------------------------
(* Bounds of the model *)

\* most rows of a table given to validate_dataframe
MaxRows == 2
\* largest min_rows / max_rows of a drawn schema
MaxSchemaRows == 3
\* most parts a filename given to _infer_dataset_name is made of
MaxNameParts == 2
\* most files under the directory given to validate_directory
MaxDirFiles == 2
\* most files the download of the competition data brings
MaxFiles == 3
\* the last reading of the clock, in seconds after the start of the flow
MaxClock == 2
\* most tables given to the unifier in one call
MaxDatasets == 2
\* most rows, over all tables, given to the unifier in one call
MaxTotalRows == 3

---------------------------------------------------------------------------
(* Cells, optional values and tables *)

IntCell(i) == [t |-> "int", i |-> i, s |-> ""]
StrCell(s) == [t |-> "str", i |-> 0, s |-> s]
NaNCell == [t |-> "nan", i |-> 0, s |-> ""]
\* a float with a fractional part: its integer part (what int() keeps of it)
\* and its text
FloatCell(i, s) == [t |-> "float", i |-> i, s |-> s]
NoneCell == [t |-> "none", i |-> 0, s |-> ""]

\* pandas isnull / isna of one cell
IsNull(c) == c.t \in {"nan", "none"}

\* Optional[int]: None or an integer
NoneOpt == [set |-> FALSE, v |-> 0]
Some(n) == [set |-> TRUE, v |-> n]

\* Python truthiness of an Optional[int]: None and 0 are both falsy
Truthy(o) == o.set /\ o.v # 0

\* Optional[Set[...]]: None or a set of values
NoneSet == [set |-> FALSE, vals |-> {}]
SomeSet(S) == [set |-> TRUE, vals |-> S]

\* Python truthiness of an Optional[Set]: None and the empty set are falsy
TruthySet(o) == o.set /\ o.vals # {}

Range(f) == {f[x] : x \in DOMAIN f}

RECURSIVE Perms(_)
\* every order in which a Python set may be iterated
Perms(S) ==
    IF S = {} THEN {<<>>}
    ELSE UNION {{<<x>> \o p : p \in Perms(S \ {x})} : x \in S}

\* len(df)
NRows(t) == t.index

\* set(df.columns)
ColumnSet(t) == Range(t.columns)

\* the dtype pandas infers for a column of cells: object for an empty column
\* and for one that holds only None
Dtype(col) ==
    IF \A k \in 1..Len(col) : col[k].t = "none" THEN "object"
    ELSE IF \A k \in 1..Len(col) : col[k].t = "int" THEN "int64"
    ELSE IF \A k \in 1..Len(col) : col[k].t \in {"int", "float", "nan", "none"} THEN "float64"
    ELSE "object"

\* str(value) of one cell of a column of the given dtype (astype(str))
CellToStr(c, dtype) ==
    CASE c.t = "int" -> IF dtype = "float64" THEN ToString(c.i) \o ".0" ELSE ToString(c.i)
      [] c.t = "str" -> c.s
      [] c.t = "float" -> c.s
      [] c.t = "nan" -> "nan"
      [] c.t = "none" -> IF dtype = "float64" THEN "nan" ELSE "None"

\* series.astype(str)
AsTypeStr(col) ==
    LET dtype == Dtype(col)
    IN  [k \in 1..Len(col) |-> StrCell(CellToStr(col[k], dtype))]

---------------------------------------------------------------------------
(* data_validation.py: schemas and results *)

ColumnSchema(name, dtype, nullable, unique, min_length, max_length, allowed_values) ==
    [name |-> name, dtype |-> dtype, nullable |-> nullable, unique |-> unique,
     min_length |-> min_length, max_length |-> max_length,
     allowed_values |-> allowed_values]

DatasetSchema(name, columns, min_rows, max_rows) ==
    [name |-> name, columns |-> columns, min_rows |-> min_rows, max_rows |-> max_rows]

\* DatasetSchema.get_column_names
GetColumnNames(sch) == {sch.columns[k].name : k \in 1..Len(sch.columns)}

\* DatasetSchema.get_column_schema: the first column schema of that name
GetColumnSchema(sch, column_name) ==
    LET hits == {k \in 1..Len(sch.columns) : sch.columns[k].name = column_name}
    IN  sch.columns[CHOOSE k \in hits : \A j \in hits : k <= j]

\* one entry of ValidationResult.errors / warnings: the kind of message and
\* the values formatted into it
Message(kind, col, n, m, names, vals, dt) ==
    [kind |-> kind, col |-> col, n |-> n, m |-> m, names |-> names, vals |-> vals,
     dt |-> dt]

ValidationResult(name, is_valid, errors, row_count, column_count) ==
    [dataset_name |-> name, is_valid |-> is_valid, errors |-> errors,
     warnings |-> <<>>, row_count |-> row_count, column_count |-> column_count]

\* DataValidator._get_expected_schemas
ExpectedSchemas ==
    [n \in {"primary_competition_data", "daigt_v2_additional_data", "train_prompts"} |->
       CASE n = "primary_competition_data" ->
              DatasetSchema("primary_competition_data",
                <<ColumnSchema("id", "int64", FALSE, TRUE, NoneOpt, NoneOpt, NoneSet),
                  ColumnSchema("prompt_id", "int64", FALSE, FALSE, NoneOpt, NoneOpt, NoneSet),
                  ColumnSchema("text", "object", FALSE, FALSE, Some(10), NoneOpt, NoneSet),
                  ColumnSchema("generated", "int64", FALSE, FALSE, NoneOpt, NoneOpt,
                               SomeSet({IntCell(0), IntCell(1)}))>>,
                1000, NoneOpt)
         [] n = "daigt_v2_additional_data" ->
              DatasetSchema("daigt_v2_additional_data",
                <<ColumnSchema("id", "object", FALSE, TRUE, NoneOpt, NoneOpt, NoneSet),
                  ColumnSchema("prompt_id", "object", FALSE, FALSE, NoneOpt, NoneOpt, NoneSet),
                  ColumnSchema("text", "object", FALSE, FALSE, Some(10), NoneOpt, NoneSet),
                  ColumnSchema("generated", "int64", FALSE, FALSE, NoneOpt, NoneOpt,
                               SomeSet({IntCell(0), IntCell(1)})),
                  ColumnSchema("source", "object", TRUE, FALSE, NoneOpt, NoneOpt, NoneSet)>>,
                100, NoneOpt)
         [] n = "train_prompts" ->
              DatasetSchema("train_prompts",
                <<ColumnSchema("prompt_id", "int64", FALSE, TRUE, NoneOpt, NoneOpt, NoneSet),
                  ColumnSchema("prompt_name", "object", FALSE, FALSE, NoneOpt, NoneOpt, NoneSet),
                  ColumnSchema("instructions", "object", FALSE, FALSE, Some(10), NoneOpt, NoneSet),
                  ColumnSchema("source_text", "object", FALSE, FALSE, Some(10), NoneOpt, NoneSet)>>,
                1, NoneOpt)]

---------------------------------------------------------------------------
(* DataValidator._validate_column *)

\* series.isnull().sum()
NullCount(series) == Cardinality({k \in 1..Len(series) : IsNull(series[k])})

\* series.dropna()
DropNa(series) == SelectSeq(series, LAMBDA c : ~IsNull(c))

\* mutant of CheckNulls: nullable is not looked at
CheckNullsIgnoringNullable(series, cs) ==
    IF NullCount(series) > 0
    THEN <<Message("nulls", cs.name, NullCount(series), 0, {}, {}, "")>>
    ELSE <<>>

\* "Check nulls"
CheckNulls(series, cs) ==
    IF ~cs.nullable /\ NullCount(series) > 0
    THEN <<Message("nulls", cs.name, NullCount(series), 0, {}, {}, "")>>
    ELSE <<>>

\* "Check uniqueness": all missing values count as one value
CheckUnique(series, cs) ==
    LET distinct == Cardinality({IF IsNull(c) THEN NaNCell ELSE c : c \in Range(series)})
    IN  IF cs.unique /\ distinct # Len(series)
        THEN <<Message("duplicates", cs.name, Len(series) - distinct, 0, {}, {}, "")>>
        ELSE <<>>

\* "Check data type (basic check)"
CheckDtype(series, cs) ==
    IF cs.dtype = "int64" /\ Dtype(series) # "int64"
    THEN <<Message("dtype", cs.name, 0, 0, {}, {}, Dtype(series))>>
    ELSE IF cs.dtype = "object" /\ Dtype(series) # "object"
    THEN <<Message("dtype", cs.name, 0, 0, {}, {}, Dtype(series))>>
    ELSE <<>>

\* "Check string lengths"
CheckLengths(series, cs) ==
    LET non_null == DropNa(series)
        dtype == Dtype(series)
        str_lengths == [k \in 1..Len(non_null) |-> Len(CellToStr(non_null[k], dtype))]
        short_count == Cardinality({k \in 1..Len(non_null) :
                                       str_lengths[k] < cs.min_length.v})
        long_count == Cardinality({k \in 1..Len(non_null) :
                                      str_lengths[k] > cs.max_length.v})
    IN  IF cs.dtype = "object" /\ (Truthy(cs.min_length) \/ Truthy(cs.max_length))
           /\ Len(non_null) > 0
        THEN (IF Truthy(cs.min_length) /\ short_count > 0
              THEN <<Message("too_short", cs.name, short_count, cs.min_length.v, {}, {}, "")>>
              ELSE <<>>)
             \o
             (IF Truthy(cs.max_length) /\ long_count > 0
              THEN <<Message("too_long", cs.name, long_count, cs.max_length.v, {}, {}, "")>>
              ELSE <<>>)
        ELSE <<>>

\* "Check allowed values"
CheckAllowedValues(series, cs) ==
    LET invalid_values == Range(DropNa(series)) \ cs.allowed_values.vals
    IN  IF TruthySet(cs.allowed_values) /\ invalid_values # {}
        THEN <<Message("invalid_values", cs.name, 0, 0, {}, invalid_values, "")>>
        ELSE <<>>

ValidateColumn(series, cs) ==
    CheckNulls(series, cs) \o CheckUnique(series, cs) \o CheckDtype(series, cs)
    \o CheckLengths(series, cs) \o CheckAllowedValues(series, cs)

---------------------------------------------------------------------------
(* DataValidator.validate_dataframe *)

\* result.errors.append(e); result.is_valid = False
Fail(res, e) == [res EXCEPT !.errors = Append(@, e), !.is_valid = FALSE]

\* mutant of CheckMinRows: the comparison the wrong way round
MinRowsReversed(res, t, sch) ==
    IF NRows(t) > sch.min_rows
    THEN Fail(res, Message("insufficient_rows", "", NRows(t), sch.min_rows, {}, {}, ""))
    ELSE res

\* "Check row count"
CheckMinRows(res, t, sch) ==
    IF NRows(t) < sch.min_rows
    THEN Fail(res, Message("insufficient_rows", "", NRows(t), sch.min_rows, {}, {}, ""))
    ELSE res

CheckMaxRows(res, t, sch) ==
    IF Truthy(sch.max_rows) /\ NRows(t) > sch.max_rows.v
    THEN Fail(res, Message("too_many_rows", "", NRows(t), sch.max_rows.v, {}, {}, ""))
    ELSE res

\* mutant of CheckMissingColumns: the error is appended, is_valid is left as is
MissingColumnsKeepValid(res, t, sch) ==
    LET missing_columns == GetColumnNames(sch) \ ColumnSet(t)
    IN  IF missing_columns # {}
        THEN [res EXCEPT !.errors =
                 Append(@, Message("missing_columns", "", 0, 0, missing_columns, {}, ""))]
        ELSE res

\* "Check columns exist": missing columns are an error
CheckMissingColumns(res, t, sch) ==
    LET missing_columns == GetColumnNames(sch) \ ColumnSet(t)
    IN  IF missing_columns # {}
        THEN Fail(res, Message("missing_columns", "", 0, 0, missing_columns, {}, ""))
        ELSE res

\* mutant of CheckExtraColumns: extra columns are an error
ExtraColumnsAsError(res, t, sch) ==
    LET extra_columns == ColumnSet(t) \ GetColumnNames(sch)
    IN  IF extra_columns # {}
        THEN Fail(res, Message("extra_columns", "", 0, 0, extra_columns, {}, ""))
        ELSE res

\* extra columns are a warning
CheckExtraColumns(res, t, sch) ==
    LET extra_columns == ColumnSet(t) \ GetColumnNames(sch)
    IN  IF extra_columns # {}
        THEN [res EXCEPT !.warnings =
                 Append(@, Message("extra_columns", "", 0, 0, extra_columns, {}, ""))]
        ELSE res

\* one turn of the "Validate each column" loop
ValidateOneColumn(res, t, sch, column_name) ==
    LET column_errors == ValidateColumn(t.data[column_name],
                                        GetColumnSchema(sch, column_name))
    IN  [res EXCEPT !.errors = @ \o column_errors,
                    !.is_valid = IF column_errors # <<>> THEN FALSE ELSE @]

RECURSIVE ValidateEachColumn(_, _, _, _)
\* the loop over expected_columns.intersection(actual_columns), visited in
\* the given order
ValidateEachColumn(res, t, sch, order) ==
    IF order = <<>> THEN res
    ELSE ValidateEachColumn(ValidateOneColumn(res, t, sch, Head(order)),
                            t, sch, Tail(order))

\* the orders in which the set expected_columns.intersection(actual_columns)
\* may be iterated
VisitOrders(t, sch) == Perms(GetColumnNames(sch) \cap ColumnSet(t))

ValidateDataframe(t, sch, order) ==
    LET r0 == ValidationResult(sch.name, TRUE, <<>>, NRows(t), Len(t.columns))
        r1 == CheckMinRows(r0, t, sch)
        r2 == CheckMaxRows(r1, t, sch)
        r3 == CheckMissingColumns(r2, t, sch)
        r4 == CheckExtraColumns(r3, t, sch)
    IN  ValidateEachColumn(r4, t, sch, order)

---------------------------------------------------------------------------
(* Strings: file names are compared by their characters *)

\* the parts the filenames given to _infer_dataset_name are made of
FilenameParts ==
    {"train_", "TRAIN_", "train", "essay", "prompt", "Prompt", "daigt", "DAIGT", "_", "v2"}

\* the characters of one part
PartChars(part) ==
    CASE part = "train_" -> <<"t", "r", "a", "i", "n", "_">>
      [] part = "TRAIN_" -> <<"T", "R", "A", "I", "N", "_">>
      [] part = "train" -> <<"t", "r", "a", "i", "n">>
      [] part = "essay" -> <<"e", "s", "s", "a", "y">>
      [] part = "prompt" -> <<"p", "r", "o", "m", "p", "t">>
      [] part = "Prompt" -> <<"P", "r", "o", "m", "p", "t">>
      [] part = "daigt" -> <<"d", "a", "i", "g", "t">>
      [] part = "DAIGT" -> <<"D", "A", "I", "G", "T">>
      [] part = "_" -> <<"_">>
      [] part = "v2" -> <<"v", "2">>

RECURSIVE JoinParts(_)
\* the string the parts spell, one after the other
JoinParts(parts) ==
    IF parts = <<>> THEN "" ELSE Head(parts) \o JoinParts(Tail(parts))

RECURSIVE JoinChars(_)
\* the characters of the string the parts spell
JoinChars(parts) ==
    IF parts = <<>> THEN <<>> ELSE PartChars(Head(parts)) \o JoinChars(Tail(parts))

RECURSIVE PartLists(_)
\* the lists of at most n parts
PartLists(n) ==
    IF n = 0 THEN {<<>>}
    ELSE LET shorter == PartLists(n - 1)
         IN  shorter \cup {Append(q, x) : q \in {r \in shorter : Len(r) = n - 1},
                                          x \in FilenameParts}

\* the characters of a string
Chars(s) ==
    CASE s = "train_essays" -> <<"t", "r", "a", "i", "n", "_", "e", "s", "s", "a", "y", "s">>
      [] s = "TRAIN_PROMPTS" -> <<"T", "R", "A", "I", "N", "_", "P", "R", "O", "M", "P", "T", "S">>
      [] s = "daigt_train_v2" -> <<"d", "a", "i", "g", "t", "_", "t", "r", "a", "i", "n", "_", "v", "2">>
      [] s = "daigt_v2" -> <<"d", "a", "i", "g", "t", "_", "v", "2">>
      [] s = "sample_submission" -> <<"s", "a", "m", "p", "l", "e", "_", "s", "u", "b", "m", "i", "s", "s", "i", "o", "n">>
      [] s = ".csv" -> <<".", "c", "s", "v">>
      [] s = ".CSV" -> <<".", "C", "S", "V">>
      [] s = ".parquet" -> <<".", "p", "a", "r", "q", "u", "e", "t">>
      [] s = ".pq" -> <<".", "p", "q">>
      [] s = ".txt" -> <<".", "t", "x", "t">>
      [] s = "train_essay" -> <<"t", "r", "a", "i", "n", "_", "e", "s", "s", "a", "y">>
      [] s = "train_" -> <<"t", "r", "a", "i", "n", "_">>
      [] s = "prompt" -> <<"p", "r", "o", "m", "p", "t">>
      [] s = "daigt" -> <<"d", "a", "i", "g", "t">>
      [] s = "train" -> <<"t", "r", "a", "i", "n">>
      [] s = "" -> <<>>
      [] s = "train_v2" -> <<"t", "r", "a", "i", "n", "_", "v", "2">>
      [] s = "train_prompts" -> <<"t", "r", "a", "i", "n", "_", "p", "r", "o", "m", "p", "t", "s">>
      [] s = "test_essays" -> <<"t", "e", "s", "t", "_", "e", "s", "s", "a", "y", "s">>
      [] s = "essays_train" -> <<"e", "s", "s", "a", "y", "s", "_", "t", "r", "a", "i", "n">>
      [] s = "notes" -> <<"n", "o", "t", "e", "s">>
      [] s = "parquet" -> <<"p", "a", "r", "q", "u", "e", "t">>
      [] s = "Parquet" -> <<"P", "a", "r", "q", "u", "e", "t">>
      [] s = "PARQUET" -> <<"P", "A", "R", "Q", "U", "E", "T">>
      [] s = "csv" -> <<"c", "s", "v">>
      [] s = "CSV" -> <<"C", "S", "V">>
      [] s = "json" -> <<"j", "s", "o", "n">>
      [] s = "pq" -> <<"p", "q">>
      [] OTHER -> JoinChars(CHOOSE parts \in PartLists(MaxNameParts) : JoinParts(parts) = s)

\* str.lower of one character
LowerChar(c) ==
    LET upper == [A |-> "a", C |-> "c", D |-> "d", E |-> "e", G |-> "g", I |-> "i", M |-> "m", N |-> "n", O |-> "o", P |-> "p", Q |-> "q", R |-> "r", S |-> "s", T |-> "t", U |-> "u", V |-> "v"]
    IN  IF c \in DOMAIN upper THEN upper[c] ELSE c

\* str.lower
Lower(cs) == [k \in 1..Len(cs) |-> LowerChar(cs[k])]

\* Python's  pattern in text
Contains(text, pattern) ==
    \E k \in 1..(Len(text) - Len(pattern) + 1) :
        SubSeq(text, k, k + Len(pattern) - 1) = pattern

\* text.startswith(prefix)
StartsWith(text, prefix) ==
    Len(text) >= Len(prefix) /\ SubSeq(text, 1, Len(prefix)) = prefix

\* Optional[str]
NoneStr == [set |-> FALSE, v |-> ""]
SomeStr(x) == [set |-> TRUE, v |-> x]
TruthyStr(o) == o.set /\ o.v # ""

---------------------------------------------------------------------------
(* DataValidator._infer_dataset_name and DataValidator.validate_file *)

\* mutant of InferDatasetName: the filename is not lower-cased
InferWithoutLower(filename) ==
    LET filename_lower == Chars(filename)
    IN  IF Contains(filename_lower, Chars("train_essay"))
           \/ Contains(filename_lower, Chars("train_"))
        THEN IF Contains(filename_lower, Chars("prompt"))
             THEN SomeStr("train_prompts")
             ELSE SomeStr("primary_competition_data")
        ELSE IF Contains(filename_lower, Chars("daigt"))
        THEN SomeStr("daigt_v2_additional_data")
        ELSE NoneStr

InferDatasetName(filename) ==
    LET filename_lower == Lower(Chars(filename))
    IN  IF Contains(filename_lower, Chars("train_essay"))
           \/ Contains(filename_lower, Chars("train_"))
        THEN IF Contains(filename_lower, Chars("prompt"))
             THEN SomeStr("train_prompts")
             ELSE SomeStr("primary_competition_data")
        ELSE IF Contains(filename_lower, Chars("daigt"))
        THEN SomeStr("daigt_v2_additional_data")
        ELSE NoneStr

\* dataset_name or file_path.stem
NameOrStem(f, name) == IF TruthyStr(name) THEN name.v ELSE f.stem

\* mutant of DetermineSchema: the name inferred from the file stem comes first
DetermineSchemaInferFirst(f, name) ==
    LET inferred_name == InferDatasetName(f.stem)
    IN  IF TruthyStr(inferred_name) /\ inferred_name.v \in DOMAIN ExpectedSchemas
        THEN inferred_name
        ELSE IF TruthyStr(name) /\ name.v \in DOMAIN ExpectedSchemas
        THEN name
        ELSE NoneStr

\* "Determine schema": the registry key validate_file validates against, if any
DetermineSchema(f, name) ==
    IF TruthyStr(name) /\ name.v \in DOMAIN ExpectedSchemas
    THEN name
    ELSE LET inferred_name == InferDatasetName(f.stem)
         IN  IF TruthyStr(inferred_name) /\ inferred_name.v \in DOMAIN ExpectedSchemas
             THEN inferred_name
             ELSE NoneStr

\* mutant of FileError: the result carries no error
FileErrorWithoutMessage(f, name, kind, row_count, column_count) ==
    ValidationResult(NameOrStem(f, name), FALSE, <<>>, row_count, column_count)

\* the ValidationResult of the early returns and of the except branch
FileError(f, name, kind, row_count, column_count) ==
    ValidationResult(NameOrStem(f, name), FALSE,
                     <<Message(kind, NameOrStem(f, name), 0, 0, {}, {}, "")>>,
                     row_count, column_count)

\* how far validate_file gets: which return statement it reaches
FilePath(f, name) ==
    IF ~f.exists THEN "file_missing"
    ELSE IF Lower(Chars(f.suffix)) \notin {Chars(".csv"), Chars(".parquet"), Chars(".pq")}
    THEN "unsupported_format"
    ELSE IF f.load = "error" THEN "load_error"
    ELSE IF ~DetermineSchema(f, name).set THEN "no_schema"
    ELSE "validate"

\* the orders in which validate_file's call of validate_dataframe may visit
\* the columns
FileVisitOrders(f, name) ==
    IF FilePath(f, name) = "validate"
    THEN VisitOrders(f.table, ExpectedSchemas[DetermineSchema(f, name).v])
    ELSE {<<>>}

ValidateFile(f, name, order) ==
    CASE FilePath(f, name) = "file_missing" -> FileError(f, name, "file_missing", 0, 0)
      [] FilePath(f, name) = "unsupported_format" ->
             FileError(f, name, "unsupported_format", 0, 0)
      [] FilePath(f, name) = "load_error" -> FileError(f, name, "load_error", 0, 0)
      [] FilePath(f, name) = "no_schema" ->
             FileError(f, name, "no_schema", NRows(f.table), Len(f.table.columns))
      [] FilePath(f, name) = "validate" ->
             ValidateDataframe(f.table, ExpectedSchemas[DetermineSchema(f, name).v], order)

---------------------------------------------------------------------------
(* Inputs of the validator *)

RECURSIVE SeqsUpTo(_, _)
\* the sequences over S of length at most n
SeqsUpTo(S, n) ==
    IF n = 0 THEN {<<>>}
    ELSE LET shorter == SeqsUpTo(S, n - 1)
         IN  shorter \cup {Append(q, x) : q \in {r \in shorter : Len(r) = n - 1}, x \in S}

\* the DataFrame with the given columns (in order) whose rows are the given
\* rows, each a record of cells
Frame(columns, rows) ==
    [columns |-> columns, index |-> Len(rows),
     data |-> [c \in Range(columns) |-> [k \in 1..Len(rows) |-> rows[k][c]]]]

\* the subsequence of columns whose members are in S
Restrict(columns, S) == SelectSeq(columns, LAMBDA c : c \in S)

\* rows the tables given to validate_dataframe are made of
ValidatorRows ==
    {[id |-> IntCell(1), text |-> StrCell("hello"), extra |-> StrCell("e")],
     [id |-> IntCell(1), text |-> StrCell("hi"), extra |-> NaNCell],
     [id |-> NaNCell, text |-> NaNCell, extra |-> StrCell("e")]}

ValidatorTables ==
    {Frame(Restrict(<<"id", "text", "extra">>, S), rows) :
        S \in SUBSET {"id", "text", "extra"}, rows \in SeqsUpTo(ValidatorRows, MaxRows)}

\* column lists of the schemas given to validate_dataframe
ValidatorColumnLists ==
    {<<ColumnSchema("id", "int64", FALSE, TRUE, NoneOpt, NoneOpt, NoneSet),
       ColumnSchema("text", "object", FALSE, FALSE, Some(3), NoneOpt, NoneSet)>>,
     <<ColumnSchema("text", "object", TRUE, FALSE, NoneOpt, Some(3), NoneSet),
       ColumnSchema("id", "int64", TRUE, FALSE, NoneOpt, NoneOpt, SomeSet({IntCell(0)}))>>}

ValidatorSchemas ==
    {DatasetSchema("schema", cl, lo, hi) :
        cl \in ValidatorColumnLists, lo \in 0..MaxSchemaRows,
        hi \in {NoneOpt} \cup {Some(n) : n \in 0..MaxSchemaRows}}

\* tables the files given to validate_file hold
FileTables ==
    {Frame(<<>>, <<>>),
     Frame(<<"prompt_id", "prompt_name", "instructions", "source_text">>,
           <<[prompt_id |-> IntCell(0), prompt_name |-> StrCell("Car-free cities"),
              instructions |-> StrCell("Write an explanatory essay"),
              source_text |-> StrCell("# In German Suburb, Life Goes On Without Cars")]>>),
     Frame(<<"id", "prompt_id", "text", "generated">>,
           <<[id |-> StrCell("0059830c"), prompt_id |-> IntCell(0),
              text |-> StrCell("Cars."), generated |-> IntCell(2)]>>)}

Files ==
    [exists : BOOLEAN,
     stem : {"train_essays", "TRAIN_PROMPTS", "daigt_train_v2", "daigt_v2",
             "sample_submission"},
     suffix : {".csv", ".CSV", ".parquet", ".pq", ".txt"},
     load : {"ok", "error"},
     table : FileTables]

DatasetNames ==
    {NoneStr, SomeStr("primary_competition_data"), SomeStr("train_prompts"),
     SomeStr("sample_submission")}

---------------------------------------------------------------------------
(* The validator as a state machine: one call per behaviour *)

NoSchema == DatasetSchema("", <<>>, 0, NoneOpt)
NoFile == [exists |-> FALSE, stem |-> "", suffix |-> "", load |-> "ok",
           table |-> Frame(<<>>, <<>>)]
NoResult == ValidationResult("", FALSE, <<>>, 0, 0)
NoFrame == [status |-> "none", error |-> "", table |-> Frame(<<>>, <<>>)]

\* a pathlib.Path: its parent, and its name split into stem and suffix
Path(parent, stem, suffix) == [parent |-> parent, stem |-> stem, suffix |-> suffix]
NoPath == Path("", "", "")
\* what save_unified_dataset gave: nothing yet, a path, or an error
NoSaved == [status |-> "none", error |-> "", path |-> NoPath]

\* the metadata sidecar: not written yet
NoMetadata == [written |-> FALSE, path |-> NoPath, metadata |-> <<>>]

InferIdle ==
    /\ name_given = ""
    /\ name_inferred = NoneStr

DirIdle ==
    /\ directory = {}
    /\ results = <<>>

SaveIdle ==
    /\ output_path = NoPath
    /\ format = ""
    /\ df_saved = Frame(<<>>, <<>>)
    /\ files = {}
    /\ dirs = {}
    /\ saved_path = NoSaved

LoadIdle ==
    /\ tree = {}
    /\ subdirs = {}
    /\ loaded = <<>>

FlowIdle ==
    /\ downloaded_data = <<>>
    /\ validation_results = <<>>
    /\ datasets_to_merge = <<>>
    /\ now = 0
    /\ unified_path = NoPath
    /\ gcs = {}
    /\ metadata_file = NoMetadata
    /\ steps = <<>>
    /\ flow_error = ""

\* no call of the unifier
UnifierCallIdle ==
    /\ datasets = <<>>
    /\ resolved_datasets = <<>>
    /\ concatenated = NoFrame
    /\ unified_df = NoFrame
    /\ standardised_df = NoFrame

\* no call of validate_dataframe or validate_file
ValidatorCallIdle ==
    /\ schema = NoSchema
    /\ df = Frame(<<>>, <<>>)
    /\ file = NoFile
    /\ dataset_name = NoneStr
    /\ result = NoResult

UnifierIdle ==
    /\ UnifierCallIdle
    /\ InferIdle
    /\ DirIdle
    /\ SaveIdle
    /\ LoadIdle
    /\ FlowIdle

ValidatorIdle ==
    /\ ValidatorCallIdle
    /\ InferIdle
    /\ DirIdle
    /\ SaveIdle
    /\ LoadIdle
    /\ FlowIdle

InitValidateDataframe ==
    /\ pc = "call_validate_dataframe"
    /\ schema \in ValidatorSchemas
    /\ df \in ValidatorTables
    /\ file = NoFile
    /\ dataset_name = NoneStr
    /\ result = NoResult
    /\ UnifierIdle

InitValidateFile ==
    /\ pc = "call_validate_file"
    /\ schema = NoSchema
    /\ df = Frame(<<>>, <<>>)
    /\ file \in Files
    /\ dataset_name \in DatasetNames
    /\ result = NoResult
    /\ UnifierIdle

InitValidator == InitValidateDataframe \/ InitValidateFile

validate_dataframe ==
    /\ pc = "call_validate_dataframe"
    /\ \E order \in VisitOrders(df, schema) :
          result' = ValidateDataframe(df, schema, order)
    /\ pc' = "validate_dataframe_returned"
    /\ UNCHANGED <<schema, df, file, dataset_name,
                   datasets, resolved_datasets, concatenated, unified_df, standardised_df, inferVars, dirVars, saveVars, loadVars, flowVars>>

validate_file ==
    /\ pc = "call_validate_file"
    /\ \E order \in FileVisitOrders(file, dataset_name) :
          result' = ValidateFile(file, dataset_name, order)
    /\ pc' = "validate_file_returned"
    /\ UNCHANGED <<schema, df, file, dataset_name,
                   datasets, resolved_datasets, concatenated, unified_df, standardised_df, inferVars, dirVars, saveVars, loadVars, flowVars>>

NextValidator == validate_dataframe \/ validate_file

SpecValidator == InitValidator /\ [][NextValidator]_vars

---------------------------------------------------------------------------
(* One column checked by _validate_column, through validate_dataframe *)

\* values of the column given to _validate_column
ColumnCells == {IntCell(1), StrCell("hi"), StrCell("hello"), NaNCell, NoneCell}

\* the settings of min_length and of max_length
LengthSettings == {NoneOpt, Some(0), Some(3)}

\* the settings of allowed_values
AllowedValueSettings == {NoneSet, SomeSet({}), SomeSet({IntCell(1), StrCell("hi")})}

\* the column schemas given to _validate_column: min_length <= max_length
\* when both are set
ColumnSchemas ==
    {ColumnSchema("value", dtype, nullable, unique, lo, hi, allowed) :
        dtype \in {"int64", "object"}, nullable \in BOOLEAN, unique \in BOOLEAN,
        lo \in LengthSettings,
        hi \in LengthSettings,
        allowed \in AllowedValueSettings}
    \ {cs \in [name : {"value"}, dtype : {"int64", "object"}, nullable : BOOLEAN,
               unique : BOOLEAN, min_length : LengthSettings,
               max_length : LengthSettings, allowed_values : AllowedValueSettings] :
          cs.min_length.set /\ cs.max_length.set /\ cs.min_length.v > cs.max_length.v}

\* the DataFrame whose only column is the given series
SeriesFrame(name, series) ==
    [columns |-> <<name>>, index |-> Len(series), data |-> [c \in {name} |-> series]]

InitColumn ==
    /\ pc = "call_validate_dataframe"
    /\ \E cs \in ColumnSchemas :
          \E series \in SeqsUpTo(ColumnCells, MaxRows) :
             /\ schema = DatasetSchema("schema", <<cs>>, 0, NoneOpt)
             /\ df = SeriesFrame(cs.name, series)
    /\ file = NoFile
    /\ dataset_name = NoneStr
    /\ result = NoResult
    /\ UnifierIdle

NextColumn == validate_dataframe

SpecColumn == InitColumn /\ [][NextColumn]_vars

---------------------------------------------------------------------------
(* _infer_dataset_name called on its own *)

\* the filenames given to _infer_dataset_name
Filenames == {JoinParts(parts) : parts \in PartLists(MaxNameParts)}

InitInfer ==
    /\ pc = "call_infer_dataset_name"
    /\ name_given \in Filenames
    /\ name_inferred = NoneStr
    /\ ValidatorCallIdle
    /\ UnifierCallIdle
    /\ DirIdle
    /\ SaveIdle
    /\ LoadIdle
    /\ FlowIdle

infer_dataset_name ==
    /\ pc = "call_infer_dataset_name"
    /\ name_inferred' = InferDatasetName(name_given)
    /\ pc' = "infer_dataset_name_returned"
    /\ UNCHANGED <<schema, df, file, dataset_name, result, name_given,
                   datasets, resolved_datasets, concatenated, unified_df, standardised_df, dirVars, saveVars, loadVars, flowVars>>

NextInfer == infer_dataset_name

SpecInfer == InitInfer /\ [][NextInfer]_vars

---------------------------------------------------------------------------
(* DataValidator.validate_directory *)

RECURSIVE SubsetsUpTo(_, _)
\* the subsets of S of at most n elements
SubsetsUpTo(S, n) ==
    IF n = 0 THEN {{}}
    ELSE LET smaller == SubsetsUpTo(S, n - 1)
         IN  smaller \cup {T \cup {x} : T \in smaller, x \in S}

\* names of the files under a directory: directly inside it, or (nested)
\* inside one of its subdirectories
DirectoryNames ==
    [stem : {"train_essays"}, suffix : {".csv", ".CSV", ".txt"}, nested : BOOLEAN]
    \cup [stem : {"TRAIN_PROMPTS"}, suffix : {".csv"}, nested : BOOLEAN]
    \cup [stem : {"daigt_v2"}, suffix : {".parquet", ".pq"}, nested : BOOLEAN]
    \cup [stem : {"sample_submission"}, suffix : {".csv"}, nested : BOOLEAN]

\* what reading a file of the directory gives
DirectoryContents ==
    [load : {"ok", "error"},
     table : {Frame(<<>>, <<>>),
              Frame(<<"prompt_id", "prompt_name", "instructions", "source_text">>,
                    <<[prompt_id |-> IntCell(0), prompt_name |-> StrCell("Car-free cities"),
                       instructions |-> StrCell("Write an explanatory essay"),
                       source_text |-> StrCell("# In German Suburb, Life Goes On Without Cars")]>>)}]

\* the file of the given name and contents, as validate_file sees it
DirectoryFile(n, c) ==
    [exists |-> TRUE, stem |-> n.stem, suffix |-> n.suffix, load |-> c.load,
     table |-> c.table, nested |-> n.nested]

\* file_path.name
FileName(f) == f.stem \o f.suffix

\* directory.glob("*" + suffix): the files directly inside the directory whose
\* name ends with the suffix, letter case as written
Glob(dir, suffix) == {f \in dir : ~f.nested /\ f.suffix = suffix}

\* validate_file(file_path): the file without its directory-only field
AsFile(f) ==
    [exists |-> f.exists, stem |-> f.stem, suffix |-> f.suffix, load |-> f.load,
     table |-> f.table]

\* the results validate_file(file_path) may return for a file of the directory
FileResults(f) ==
    {ValidateFile(AsFile(f), NoneStr, order) : order \in FileVisitOrders(AsFile(f), NoneStr)}

\* the files the two loops of validate_directory visit
GlobbedFiles(dir) == Glob(dir, ".csv") \cup Glob(dir, ".parquet")

\* the mappings validate_directory may return
ValidateDirectory(dir) ==
    {r \in [{FileName(f) : f \in GlobbedFiles(dir)} ->
              UNION {FileResults(f) : f \in GlobbedFiles(dir)}] :
        \A f \in GlobbedFiles(dir) : r[FileName(f)] \in FileResults(f)}

InitDirectory ==
    /\ pc = "call_validate_directory"
    /\ \E names \in SubsetsUpTo(DirectoryNames, MaxDirFiles) :
          \E contents \in [names -> DirectoryContents] :
             directory = {DirectoryFile(n, contents[n]) : n \in names}
    /\ results = <<>>
    /\ ValidatorCallIdle
    /\ UnifierCallIdle
    /\ InferIdle
    /\ SaveIdle
    /\ LoadIdle
    /\ FlowIdle

validate_directory ==
    /\ pc = "call_validate_directory"
    /\ results' \in ValidateDirectory(directory)
    /\ pc' = "validate_directory_returned"
    /\ UNCHANGED <<schema, df, file, dataset_name, result, directory,
                   datasets, resolved_datasets, concatenated, unified_df, standardised_df,
                   inferVars, saveVars, loadVars, flowVars>>

NextDirectory == validate_directory

SpecDirectory == InitDirectory /\ [][NextDirectory]_vars

---------------------------------------------------------------------------
(* Properties of the validator *)

Returned == pc \in {"validate_dataframe_returned", "validate_file_returned"}

\* how many entries of a message list are of one of the given kinds
CountKinds(msgs, kinds) == Cardinality({k \in 1..Len(msgs) : msgs[k].kind \in kinds})

\* a message list as a bag: how often each message occurs, whatever the order
BagOfMessages(msgs) ==
    [e \in Range(msgs) |-> Cardinality({k \in 1..Len(msgs) : msgs[k] = e})]

\* C1: every ValidationResult returned by validate_dataframe or validate_file,
\* on any of its paths, has is_valid true exactly when its errors are empty.
C1_ValidIffNoErrors ==
    Returned => (result.is_valid <=> result.errors = <<>>)

\* C1 witness: validate_file has returned a valid result from its normal path.
C1_Witness ==
    /\ pc = "validate_file_returned"
    /\ FilePath(file, dataset_name) = "validate"
    /\ result.is_valid
    /\ result.errors = <<>>

C9_TooManyRowsReported ==
    (pc = "validate_dataframe_returned" /\ schema.max_rows.set
     /\ NRows(df) > schema.max_rows.v)
    => /\ ~result.is_valid
       /\ CountKinds(result.errors, {"too_many_rows"}) >= 1

\* two tables that differ only in columns the schema does not name
DifferOnlyInExtraColumns(t1, t2, sch) ==
    /\ NRows(t1) = NRows(t2)
    /\ ColumnSet(t1) \cap GetColumnNames(sch) = ColumnSet(t2) \cap GetColumnNames(sch)
    /\ \A c \in ColumnSet(t1) \cap GetColumnNames(sch) : t1.data[c] = t2.data[c]

\* C10: a missing-columns error (and an invalid result) is reported exactly
\* when a schema column is absent from the table, an extra-columns warning
\* exactly when the table has a column the schema does not name, and a table
\* that differs only in extra columns gets the same errors (in whatever order
\* the columns are visited) and the same is_valid.
C10_MissingErrorExtraWarning ==
    pc = "validate_dataframe_returned"
    => /\ CountKinds(result.errors, {"missing_columns"}) =
             (IF GetColumnNames(schema) \subseteq ColumnSet(df) THEN 0 ELSE 1)
       /\ ~(GetColumnNames(schema) \subseteq ColumnSet(df)) => ~result.is_valid
       /\ CountKinds(result.warnings, {"extra_columns"}) =
             (IF ColumnSet(df) \subseteq GetColumnNames(schema) THEN 0 ELSE 1)
       /\ Len(result.warnings) = CountKinds(result.warnings, {"extra_columns"})
       /\ \A other \in ValidatorTables :
             DifferOnlyInExtraColumns(df, other, schema)
             => \A order \in VisitOrders(other, schema) :
                   LET r == ValidateDataframe(other, schema, order)
                   IN  /\ BagOfMessages(r.errors) = BagOfMessages(result.errors)
                       /\ r.is_valid = result.is_valid

\* C10 witness: a table with an extra column and no missing column has been
\* found valid, with the warning.
C10_Witness ==
    /\ pc = "validate_dataframe_returned"
    /\ "extra" \in ColumnSet(df)
    /\ GetColumnNames(schema) \subseteq ColumnSet(df)
    /\ result.is_valid
    /\ Len(result.warnings) = 1

\* where the schema declares the column of that name
DeclaredAt(sch, column_name) ==
    CHOOSE k \in 1..Len(sch.columns) :
        /\ sch.columns[k].name = column_name
        /\ \A j \in 1..(k - 1) : sch.columns[j].name # column_name

\* the entries of a message list that _validate_column produced
ColumnErrorsAt(msgs) == {k \in 1..Len(msgs) : msgs[k].col # ""}

\* C11 as stated: in the errors of validate_dataframe the errors of a column
\* declared earlier in the schema precede the errors of a column declared
\* later.
C11_ErrorsInDeclarationOrder ==
    pc = "validate_dataframe_returned"
    => \A i, j \in ColumnErrorsAt(result.errors) :
          i < j => DeclaredAt(schema, result.errors[i].col)
                   <= DeclaredAt(schema, result.errors[j].col)

\* the columns validate_dataframe hands to _validate_column
CheckedColumns == GetColumnNames(schema) \cap ColumnSet(df)

\* how many errors of the given kind the result holds for the column
ErrorsOfKind(column_name, kind) ==
    Cardinality({k \in 1..Len(result.errors) :
                    /\ result.errors[k].kind = kind
                    /\ result.errors[k].col = column_name})

\* the length of the text of every non-null value of the column
TextLengths(column_name) ==
    LET series == df.data[column_name]
        non_null == DropNa(series)
    IN  [k \in 1..Len(non_null) |-> Len(CellToStr(non_null[k], Dtype(series)))]

\* C12 as stated: for a text column with min_length and/or max_length set (0
\* included) there is a length error with the exact count of non-null values
\* shorter than min_length, and one with the exact count of those longer than
\* max_length, whenever that count is positive; nulls are not counted and
\* non-text columns get no length error.
C12_LengthErrorsWheneverSet ==
    pc = "validate_dataframe_returned"
    => \A c \in CheckedColumns :
          LET cs == GetColumnSchema(schema, c)
              lengths == TextLengths(c)
              short == Cardinality({k \in DOMAIN lengths : lengths[k] < cs.min_length.v})
              long == Cardinality({k \in DOMAIN lengths : lengths[k] > cs.max_length.v})
              short_errors == {k \in 1..Len(result.errors) :
                                  result.errors[k] =
                                  Message("too_short", c, short, cs.min_length.v, {}, {}, "")}
              long_errors == {k \in 1..Len(result.errors) :
                                 result.errors[k] =
                                 Message("too_long", c, long, cs.max_length.v, {}, {}, "")}
          IN  IF cs.dtype = "object"
              THEN /\ (cs.min_length.set /\ short > 0) => Cardinality(short_errors) = 1
                   /\ (cs.max_length.set /\ long > 0) => Cardinality(long_errors) = 1
                   /\ ErrorsOfKind(c, "too_short") = Cardinality(short_errors)
                   /\ ErrorsOfKind(c, "too_long") = Cardinality(long_errors)
              ELSE ErrorsOfKind(c, "too_short") + ErrorsOfKind(c, "too_long") = 0

\* C13 as stated: for a column whose allowed_values is set (the empty set
\* included) there is an allowed-values error, listing the offending values,
\* exactly when the non-null values of the column minus allowed_values are
\* not empty.
C13_InvalidValuesWheneverSet ==
    pc = "validate_dataframe_returned"
    => \A c \in CheckedColumns :
          LET cs == GetColumnSchema(schema, c)
              offending == {v \in Range(df.data[c]) : ~IsNull(v)} \ cs.allowed_values.vals
          IN  IF cs.allowed_values.set /\ offending # {}
              THEN /\ ErrorsOfKind(c, "invalid_values") = 1
                   /\ \E k \in 1..Len(result.errors) :
                         result.errors[k] =
                         Message("invalid_values", c, 0, 0, {}, offending, "")
              ELSE ErrorsOfKind(c, "invalid_values") = 0

\* C14: a column with nullable = false that is in the table and holds k > 0
\* nulls gets exactly one null error, which states k, and the result is
\* invalid; with k = 0 or nullable = true it gets no null error.
C14_NullErrorWithCount ==
    pc = "validate_dataframe_returned"
    => \A c \in CheckedColumns :
          LET cs == GetColumnSchema(schema, c)
              k == Cardinality({r \in 1..NRows(df) : df.data[c][r].t \in {"nan", "none"}})
          IN  IF ~cs.nullable /\ k > 0
              THEN /\ ErrorsOfKind(c, "nulls") = 1
                   /\ \E e \in 1..Len(result.errors) :
                         result.errors[e] = Message("nulls", c, k, 0, {}, {}, "")
                   /\ ~result.is_valid
              ELSE ErrorsOfKind(c, "nulls") = 0

\* C14 witness: a non-nullable column holding two nulls, one NaN and one None,
\* has been validated and the error states 2.
C14_Witness ==
    /\ pc = "validate_dataframe_returned"
    /\ \E c \in CheckedColumns :
          /\ ~GetColumnSchema(schema, c).nullable
          /\ NaNCell \in Range(df.data[c])
          /\ NoneCell \in Range(df.data[c])
          /\ \E e \in 1..Len(result.errors) :
                result.errors[e] = Message("nulls", c, 2, 0, {}, {}, "")

\* the result is invalid and holds exactly one error, of the given kind
OneError(kind) ==
    /\ ~result.is_valid
    /\ Len(result.errors) = 1
    /\ result.errors[1].kind = kind

\* the suffixes validate_file reads
SupportedSuffix == file.suffix \in {".csv", ".CSV", ".parquet", ".pq"}

\* C19: validate_file always returns a ValidationResult; for a missing file,
\* for an unsupported extension and for a load error the result is invalid
\* and holds exactly one error, which names that cause.
C19_FileErrorsAreResults ==
    /\ pc = "call_validate_file"
       => /\ FileVisitOrders(file, dataset_name) # {}
          /\ \A order \in FileVisitOrders(file, dataset_name) :
                DOMAIN ValidateFile(file, dataset_name, order) = DOMAIN NoResult
    /\ pc = "validate_file_returned"
       => /\ ~file.exists => OneError("file_missing")
          /\ (file.exists /\ ~SupportedSuffix) => OneError("unsupported_format")
          /\ (file.exists /\ SupportedSuffix /\ file.load = "error")
             => OneError("load_error")

\* C19 witness: a file with extension .CSV that cannot be loaded has been
\* reported by a result with one error.
C19_Witness ==
    /\ pc = "validate_file_returned"
    /\ file.exists
    /\ file.suffix = ".CSV"
    /\ file.load = "error"
    /\ result.errors = <<Message("load_error", NameOrStem(file, dataset_name),
                                 0, 0, {}, {}, "")>>

\* the file has been loaded: it exists, its extension is supported and
\* reading it did not fail
FileLoaded == file.exists /\ SupportedSuffix /\ file.load = "ok"

\* validate_file returned what validate_dataframe gives for the loaded table
\* and the schema registered under the given name
ValidatedAgainst(name) ==
    /\ result.dataset_name = name
    /\ \E order \in VisitOrders(file.table, ExpectedSchemas[name]) :
          result = ValidateDataframe(file.table, ExpectedSchemas[name], order)

\* C20: for a loaded file validate_file validates against the schema of the
\* explicit name if that is a registry key, whatever the file stem; else
\* against the schema of the name inferred from the stem if that is a
\* registry key; else it returns an invalid result whose only error is "no
\* schema found".
C20_ExplicitThenInferredSchema ==
    (pc = "validate_file_returned" /\ FileLoaded)
    => LET inferred_name == InferDatasetName(file.stem)
       IN  IF dataset_name.set /\ dataset_name.v \in DOMAIN ExpectedSchemas
           THEN ValidatedAgainst(dataset_name.v)
           ELSE IF inferred_name.set /\ inferred_name.v \in DOMAIN ExpectedSchemas
           THEN ValidatedAgainst(inferred_name.v)
           ELSE /\ OneError("no_schema")
                /\ result.row_count = NRows(file.table)

\* C20 witness: train_essays.csv, whose stem infers primary_competition_data,
\* has been validated under the explicit name train_prompts, and found valid.
C20_Witness ==
    /\ pc = "validate_file_returned"
    /\ FileLoaded
    /\ file.stem = "train_essays"
    /\ dataset_name = SomeStr("train_prompts")
    /\ InferDatasetName(file.stem) = SomeStr("primary_competition_data")
    /\ result.dataset_name = "train_prompts"
    /\ result.is_valid

\* the filename, whatever the case of its letters, contains the marker
HasMarker(marker) == Contains(Lower(Chars(name_given)), Chars(marker))

\* C21 as stated: whatever the case of the letters, a filename containing
\* "train_" gives train_prompts if it also contains "prompt" and
\* primary_competition_data otherwise, a filename containing "daigt" gives
\* daigt_v2_additional_data, and a filename containing neither gives None.
C21_EachMarkerSelects ==
    pc = "infer_dataset_name_returned"
    => /\ HasMarker("train_")
          => name_inferred = IF HasMarker("prompt") THEN SomeStr("train_prompts")
                             ELSE SomeStr("primary_competition_data")
       /\ HasMarker("daigt") => name_inferred = SomeStr("daigt_v2_additional_data")
       /\ (~HasMarker("train_") /\ ~HasMarker("daigt")) => name_inferred = NoneStr

\* C21 amended: whatever the case of the letters, a filename containing
\* "train_" gives train_prompts if it also contains "prompt" and
\* primary_competition_data otherwise, also when it contains "daigt"; a
\* filename containing "daigt" and not "train_" gives
\* daigt_v2_additional_data; and a filename containing neither gives None.
C21_TrainMarkerFirst ==
    pc = "infer_dataset_name_returned"
    => /\ HasMarker("train_")
          => name_inferred = IF HasMarker("prompt") THEN SomeStr("train_prompts")
                             ELSE SomeStr("primary_competition_data")
       /\ (HasMarker("daigt") /\ ~HasMarker("train_"))
          => name_inferred = SomeStr("daigt_v2_additional_data")
       /\ (~HasMarker("train_") /\ ~HasMarker("daigt")) => name_inferred = NoneStr

\* C21 witness: the name of a filename spelling both markers in upper case,
\* "DAIGTTRAIN_", has been inferred as primary_competition_data.
C21_Witness ==
    /\ pc = "infer_dataset_name_returned"
    /\ name_given = "DAIGTTRAIN_"
    /\ name_inferred = SomeStr("primary_competition_data")

\* the delimited-text and columnar-binary files directly inside the
\* directory: those validate_file reads as CSV or as Parquet
TabularFiles ==
    {f \in directory : ~f.nested /\ f.suffix \in {".csv", ".CSV", ".parquet", ".pq"}}

\* C22 as stated: validate_directory returns exactly one entry, keyed by
\* filename, for every delimited-text and columnar-binary file directly
\* inside the directory and none for any other file; the entry is what
\* validate_file gives for the file, an invalid result for an unloadable
\* file, whatever the other files are.
C22_EveryTabularFileHasEntry ==
    pc = "validate_directory_returned"
    => /\ DOMAIN results = {FileName(f) : f \in TabularFiles}
       /\ \A f \in TabularFiles :
             /\ results[FileName(f)] \in FileResults(f)
             /\ f.load = "error" => ~results[FileName(f)].is_valid

---------------------------------------------------------------------------
(* data_unification.py: DataUnifier *)

\* DataUnifier._get_column_mappings: per dataset, the (standard column,
\* source column) pairs in the order of the dict
ColumnMappings ==
    [n \in {"primary_competition_data", "daigt_v2_additional_data"} |->
       IF n = "primary_competition_data"
       THEN <<<<"id", "id">>, <<"prompt_id", "prompt_id">>, <<"text", "text">>,
              <<"generated", "generated">>>>
       ELSE <<<<"id", "id">>, <<"prompt_id", "prompt_id">>, <<"text", "text">>,
              <<"generated", "generated">>, <<"source", "source">>>>]

\* DataUnifier.standard_columns
StandardColumns == <<"id", "prompt_id", "text", "generated", "source">>

\* df[col] = values: a new column goes last, an existing one is overwritten
\* in place; the first column of an empty frame brings its index
SetColumn(t, col, values) ==
    [columns |-> IF col \in ColumnSet(t) THEN t.columns ELSE Append(t.columns, col),
     index |-> IF t.columns = <<>> THEN Len(values) ELSE t.index,
     data |-> [c \in ColumnSet(t) \cup {col} |-> IF c = col THEN values ELSE t.data[c]]]

\* df[col] = scalar: the scalar in every row of the index
SetScalar(t, col, cell) ==
    [columns |-> IF col \in ColumnSet(t) THEN t.columns ELSE Append(t.columns, col),
     index |-> t.index,
     data |-> [c \in ColumnSet(t) \cup {col} |->
                  IF c = col THEN [k \in 1..t.index |-> cell] ELSE t.data[c]]]

RECURSIVE MapExistingColumns(_, _, _)
\* "Map existing columns"
MapExistingColumns(acc, t, mapping) ==
    IF mapping = <<>> THEN acc
    ELSE LET standard_col == Head(mapping)[1]
             source_col == Head(mapping)[2]
         IN  MapExistingColumns(
                 IF source_col \in ColumnSet(t)
                 THEN SetColumn(acc, standard_col, t.data[source_col])
                 ELSE acc,
                 t, Tail(mapping))

RECURSIVE AddMissingColumns(_, _, _)
\* "Add missing standard columns with default values"
AddMissingColumns(acc, name, cols) ==
    IF cols = <<>> THEN acc
    ELSE AddMissingColumns(
             IF Head(cols) \notin ColumnSet(acc)
             THEN SetScalar(acc, Head(cols),
                            IF Head(cols) = "source" THEN StrCell(name) ELSE NoneCell)
             ELSE acc,
             name, Tail(cols))

\* the number a text spells, if it spells one
ParseNumber(s) ==
    IF \E n \in 0..9 : ToString(n) = s
    THEN Some(CHOOSE n \in 0..9 : ToString(n) = s)
    ELSE NoneOpt

\* mutant of ToNumericOrZero: fillna(1)
ToNumericOrOne(c) ==
    CASE c.t = "int" -> IntCell(c.i)
      [] c.t = "float" -> IntCell(c.i)
      [] c.t = "str" -> IF ParseNumber(c.s).set THEN IntCell(ParseNumber(c.s).v)
                        ELSE IntCell(1)
      [] OTHER -> IntCell(1)

\* pd.to_numeric(errors='coerce').fillna(0).astype(int) of one cell
ToNumericOrZero(c) ==
    CASE c.t = "int" -> IntCell(c.i)
      [] c.t = "float" -> IntCell(c.i)
      [] c.t = "str" -> IF ParseNumber(c.s).set THEN IntCell(ParseNumber(c.s).v)
                        ELSE IntCell(0)
      [] OTHER -> IntCell(0)

\* the conversion _ensure_data_types applies to one column
ConvertColumn(col, values) ==
    IF col = "generated"
    THEN [k \in 1..Len(values) |-> ToNumericOrZero(values[k])]
    ELSE AsTypeStr(values)

\* DataUnifier._ensure_data_types
EnsureDataTypes(t) ==
    [t EXCEPT !.data = [c \in ColumnSet(t) |->
                           IF c \in Range(StandardColumns)
                           THEN ConvertColumn(c, t.data[c])
                           ELSE t.data[c]]]

\* "Add source information if not present"
AddSourceIfAbsent(t, name) ==
    IF "source" \notin ColumnSet(t)
       \/ \A k \in 1..t.index : IsNull(t.data["source"][k])
    THEN SetScalar(t, "source", StrCell(name))
    ELSE t

\* DataUnifier.standardise_dataset, for a dataset name that has a mapping
StandardiseDataset(t, name) ==
    LET mapped == MapExistingColumns(Frame(<<>>, <<>>), t, ColumnMappings[name])
        filled == AddMissingColumns(mapped, name, StandardColumns)
    IN  AddSourceIfAbsent(EnsureDataTypes(filled), name)

\* mutant of IdPrefix: the counter is not padded to two digits
IdPrefixUnpadded(counter) == ToString(counter) \o "_"

\* f"{id_prefix_counter:02d}_"
IdPrefix(counter) ==
    (IF counter < 10 THEN "0" \o ToString(counter) ELSE ToString(counter)) \o "_"

\* the body of resolve_id_conflicts' loop for the table numbered counter
ResolveOne(t, counter) ==
    IF "id" \in ColumnSet(t)
    THEN LET with_original == SetColumn(t, "original_id", t.data["id"])
             as_str == AsTypeStr(t.data["id"])
         IN  SetColumn(with_original, "id",
                       [k \in 1..Len(as_str) |->
                           StrCell(IdPrefix(counter) \o as_str[k].s)])
    ELSE t

\* mutant of ResolveIdConflicts: id_prefix_counter is never incremented
ResolveWithoutCounting(ds) ==
    [k \in 1..Len(ds) |-> [table |-> ResolveOne(ds[k].table, 1), name |-> ds[k].name]]

\* DataUnifier.resolve_id_conflicts
ResolveIdConflicts(ds) ==
    [k \in 1..Len(ds) |-> [table |-> ResolveOne(ds[k].table, k), name |-> ds[k].name]]

RECURSIVE ConcatColumns(_)
\* the columns of pd.concat's result: the union, in order of first appearance
ConcatColumns(frames) ==
    IF frames = <<>> THEN <<>>
    ELSE LET before == ConcatColumns(SubSeq(frames, 1, Len(frames) - 1))
             last == frames[Len(frames)]
         IN  before \o SelectSeq(last.columns, LAMBDA c : c \notin Range(before))

RECURSIVE ConcatCells(_, _)
\* one column of pd.concat's result: NaN where a frame lacks the column
ConcatCells(frames, col) ==
    IF frames = <<>> THEN <<>>
    ELSE (IF col \in ColumnSet(Head(frames)) THEN Head(frames).data[col]
          ELSE [k \in 1..Head(frames).index |-> NaNCell])
         \o ConcatCells(Tail(frames), col)

RECURSIVE SumRows(_)
SumRows(frames) == IF frames = <<>> THEN 0 ELSE NRows(Head(frames)) + SumRows(Tail(frames))

\* pd.concat(frames, ignore_index=True)
Concat(frames) ==
    LET columns == ConcatColumns(frames)
    IN  [columns |-> columns, index |-> SumRows(frames),
         data |-> [c \in Range(columns) |-> ConcatCells(frames, c)]]

\* df.iloc[rows]: the rows of the given positions, in that order
TakeRows(t, rows) ==
    [columns |-> t.columns, index |-> Len(rows),
     data |-> [c \in ColumnSet(t) |-> [k \in 1..Len(rows) |-> t.data[c][rows[k]]]]]

\* mutant of DropDuplicates: keep="last"
DropDuplicatesKeepLast(t, col) ==
    TakeRows(t, SelectSeq([k \in 1..t.index |-> k],
                          LAMBDA k : \A j \in (k + 1)..t.index :
                                        t.data[col][j] # t.data[col][k]))

\* mutant of DropDuplicates: no subset, whole rows are compared
DropDuplicatesAllColumns(t, col) ==
    TakeRows(t, SelectSeq([k \in 1..t.index |-> k],
                          LAMBDA k : \A j \in 1..(k - 1) :
                                        \E c \in ColumnSet(t) : t.data[c][j] # t.data[c][k]))

\* df.drop_duplicates(subset=[col], keep="first")
DropDuplicates(t, col) ==
    TakeRows(t, SelectSeq([k \in 1..t.index |-> k],
                          LAMBDA k : \A j \in 1..(k - 1) : t.data[col][j] # t.data[col][k]))

\* mutant of ReorderColumns: the columns are left in the order of pd.concat
KeepColumnOrder(t) == t

\* "Reorder columns"
ReorderColumns(t) ==
    LET column_order == SelectSeq(StandardColumns, LAMBDA c : c \in ColumnSet(t))
        other_columns == SelectSeq(t.columns, LAMBDA c : c \notin Range(column_order))
    IN  [t EXCEPT !.columns = column_order \o other_columns]

Returns(t) == [status |-> "returned", error |-> "", table |-> t]
Raises(e) == [status |-> "raised", error |-> e, table |-> Frame(<<>>, <<>>)]

\* the datasets of the list that standardise_dataset has no mapping for
Unmapped(ds) == {k \in 1..Len(ds) : ds[k].name \notin DOMAIN ColumnMappings}

\* merge_datasets up to pd.concat: unified_df before deduplication
MergeConcat(ds) ==
    LET standardised_datasets ==
            [k \in 1..Len(ds) |-> [table |-> StandardiseDataset(ds[k].table, ds[k].name),
                                   name |-> ds[k].name]]
        resolved == ResolveIdConflicts(standardised_datasets)
        unified_dfs == [k \in 1..Len(resolved) |-> resolved[k].table]
    IN  Concat(unified_dfs)

\* mutant of MergeDatasets: no test for an empty list
MergeWithoutEmptyCheck(ds) ==
    IF Unmapped(ds) # {} THEN Raises("No column mapping found for dataset")
    ELSE Returns(ReorderColumns(DropDuplicates(MergeConcat(ds), "text")))

\* DataUnifier.merge_datasets: the table returned or the error raised
MergeDatasets(ds) ==
    IF ds = <<>> THEN Raises("No datasets provided for merging")
    ELSE IF Unmapped(ds) # {} THEN Raises("No column mapping found for dataset")
    ELSE Returns(ReorderColumns(DropDuplicates(MergeConcat(ds), "text")))

---------------------------------------------------------------------------
(* DataUnifier.save_unified_dataset *)

\* str(output_path).endswith(ext), ext one of ".parquet", ".csv": the suffix
\* is ext, or the name is the dot file ext itself (pathlib gives it no suffix)
EndsWith(path, ext) ==
    \/ path.suffix = ext
    \/ path.suffix = "" /\ path.stem = ext

\* output_path.with_suffix(ext): the last suffix replaced, or ext appended
WithSuffix(path, ext) == Path(path.parent, path.stem, ext)

\* df.to_parquet(path, index=False) / df.to_csv(path, index=False): the file
\* at path now holds the table in that encoding
WriteFile(fs, path, encoding, table) ==
    {f \in fs : f.path # path} \cup {[path |-> path, encoding |-> encoding, table |-> table]}

SavedAt(path) == [status |-> "returned", error |-> "", path |-> path]
SaveRaises(e) == [status |-> "raised", error |-> e, path |-> NoPath]

\* mutant of FinalPath: the suffix is appended only when there is none
FinalPathKeepingSuffix(path, ext) ==
    IF path.suffix # "" THEN path ELSE WithSuffix(path, ext)

\* the path written for a format of extension ext
FinalPath(path, ext) ==
    IF EndsWith(path, ext) THEN path ELSE WithSuffix(path, ext)

\* save_unified_dataset(df, output_path, format): the files afterwards and
\* what is returned or raised
SaveUnifiedDataset(fs, table, path, fmt) ==
    LET lower == Lower(Chars(fmt))
    IN  IF lower = Chars("parquet")
        THEN [files |-> WriteFile(fs, FinalPath(path, ".parquet"), "parquet", table),
              saved |-> SavedAt(FinalPath(path, ".parquet"))]
        ELSE IF lower = Chars("csv")
        THEN [files |-> WriteFile(fs, FinalPath(path, ".csv"), "csv", table),
              saved |-> SavedAt(FinalPath(path, ".csv"))]
        ELSE [files |-> fs, saved |-> SaveRaises("Unsupported format: " \o fmt)]

\* the output paths given
OutputPaths ==
    {Path("data/processed", stem, suffix) :
        stem \in {"unified_dataset_v20240101_120000", "unified", ".parquet", ".csv"},
        suffix \in {"", ".parquet", ".csv", ".PARQUET", ".txt", ".json"}}

\* the formats given
Formats == {"parquet", "Parquet", "PARQUET", "csv", "CSV", "json", "pq", ""}

\* the tables given
SavedTables ==
    {Frame(<<>>, <<>>),
     Frame(<<"id", "text">>, <<[id |-> StrCell("a1"), text |-> StrCell("Cars.")]>>)}

\* a file left by an earlier run
StaleFile(path) == [path |-> path, encoding |-> "csv", table |-> Frame(<<"old">>, <<>>)]

InitSave ==
    /\ pc = "call_save_unified_dataset"
    /\ output_path \in OutputPaths
    /\ format \in Formats
    /\ df_saved \in SavedTables
    /\ files \in {{}, {StaleFile(output_path)}, {StaleFile(WithSuffix(output_path, ".parquet"))}}
    /\ dirs = {}
    /\ saved_path = NoSaved
    /\ ValidatorCallIdle
    /\ UnifierCallIdle
    /\ InferIdle
    /\ DirIdle
    /\ LoadIdle
    /\ FlowIdle

save_unified_dataset ==
    /\ pc = "call_save_unified_dataset"
    /\ dirs' = dirs \cup {output_path.parent}
    /\ LET saved == SaveUnifiedDataset(files, df_saved, output_path, format)
       IN  /\ files' = saved.files
           /\ saved_path' = saved.saved
    /\ pc' = "save_unified_dataset_returned"
    /\ UNCHANGED <<schema, df, file, dataset_name, result,
                   datasets, resolved_datasets, concatenated, unified_df, standardised_df,
                   inferVars, dirVars, output_path, format, df_saved, loadVars, flowVars>>

NextSave == save_unified_dataset

SpecSave == InitSave /\ [][NextSave]_vars

---------------------------------------------------------------------------
(* DataUnifier.load_datasets_from_directory *)

\* subdir.glob(pattern) for the three patterns: the files of the
\* subdirectory whose name matches, letter case as written
GlobTrainEssay(dir, sub) ==
    {f \in dir : f.subdir = sub /\ f.suffix = ".csv"
                 /\ StartsWith(Chars(f.stem), Chars("train_essay"))}
GlobTrain(dir, sub) ==
    {f \in dir : f.subdir = sub /\ f.suffix = ".csv"
                 /\ Contains(Chars(f.stem), Chars("train"))}
GlobCsv(dir, sub) == {f \in dir : f.subdir = sub /\ f.suffix = ".csv"}

\* mutant of MainFileChoices: the patterns tried in the opposite order
MainFileChoicesLastPatternFirst(dir, sub) ==
    IF GlobCsv(dir, sub) # {} THEN GlobCsv(dir, sub)
    ELSE IF GlobTrain(dir, sub) # {} THEN GlobTrain(dir, sub)
    ELSE GlobTrainEssay(dir, sub)

\* the files main_files[0] may be: main_files is the three globs one after
\* the other, each in the order the file system lists the files
MainFileChoices(dir, sub) ==
    IF GlobTrainEssay(dir, sub) # {} THEN GlobTrainEssay(dir, sub)
    ELSE IF GlobTrain(dir, sub) # {} THEN GlobTrain(dir, sub)
    ELSE GlobCsv(dir, sub)

RECURSIVE LoadSubdirs(_, _)
\* the loop over directory.iterdir(): order lists the subdirectories as
\* iterated, main[sub] is main_files[0] of a subdirectory that has one
LoadSubdirs(order, main) ==
    IF order = <<>> THEN <<>>
    ELSE LET sub == Head(order)
             rest == LoadSubdirs(Tail(order), main)
         IN  IF sub \in DOMAIN main /\ main[sub].load = "ok"
             THEN <<<<main[sub].table, sub>>>> \o rest
             ELSE rest

\* what pd.read_csv gives for the file of that name
TableOf(stem, suffix) == Frame(<<"id">>, <<[id |-> StrCell(stem \o suffix)]>>)

\* the files of the directory tree: subdir is "" for a file directly inside
\* the directory given
TreeFiles ==
    {[subdir |-> sub, stem |-> n[1], suffix |-> n[2], load |-> l, table |-> TableOf(n[1], n[2])] :
        sub \in {"", "primary_competition_data", "daigt_v2_additional_data"},
        n \in {<<"train_essays", ".csv">>, <<"train_prompts", ".csv">>,
               <<"essays_train", ".csv">>, <<"test_essays", ".csv">>,
               <<"notes", ".txt">>, <<"train_essays", ".parquet">>},
        l \in {"ok", "error"}}

\* no two files of one directory have the same name
DistinctNames(fs) ==
    \A f, g \in fs : (f.subdir = g.subdir /\ f.stem = g.stem /\ f.suffix = g.suffix) => f = g

InitLoad ==
    /\ pc = "call_load_datasets_from_directory"
    /\ \E fs \in SubsetsUpTo(TreeFiles, MaxDirFiles) :
          /\ DistinctNames(fs)
          /\ tree = fs
          /\ \E empty \in SUBSET {"primary_competition_data", "daigt_v2_additional_data"} :
                subdirs = ({f.subdir : f \in fs} \ {""}) \cup empty
    /\ loaded = <<>>
    /\ ValidatorCallIdle
    /\ UnifierCallIdle
    /\ InferIdle
    /\ DirIdle
    /\ SaveIdle
    /\ FlowIdle

load_datasets_from_directory ==
    /\ pc = "call_load_datasets_from_directory"
    /\ \E order \in Perms(subdirs) :
          \E main \in [{sub \in subdirs : MainFileChoices(tree, sub) # {}} -> tree] :
             /\ \A sub \in DOMAIN main : main[sub] \in MainFileChoices(tree, sub)
             /\ loaded' = LoadSubdirs(order, main)
    /\ pc' = "load_datasets_from_directory_returned"
    /\ UNCHANGED <<schema, df, file, dataset_name, result,
                   datasets, resolved_datasets, concatenated, unified_df, standardised_df,
                   inferVars, dirVars, saveVars, tree, subdirs, flowVars>>

NextLoad == load_datasets_from_directory

SpecLoad == InitLoad /\ [][NextLoad]_vars

---------------------------------------------------------------------------
(* Inputs of the unifier *)

\* rows the tables given to merge_datasets are made of
UnifierRows ==
    {[id |-> IntCell(1), prompt_id |-> IntCell(0), text |-> StrCell("hello"),
      generated |-> IntCell(1), source |-> NaNCell, extra |-> StrCell("e")],
     [id |-> IntCell(1), prompt_id |-> NaNCell, text |-> StrCell("world"),
      generated |-> IntCell(0), source |-> StrCell("kaggle"), extra |-> StrCell("e")],
     [id |-> IntCell(2), prompt_id |-> IntCell(1), text |-> StrCell("hello"),
      generated |-> IntCell(1), source |-> NaNCell, extra |-> NaNCell]}

\* the columns the tables of one call of merge_datasets have
UnifierColumns ==
    {<<"id", "text", "generated">>,
     <<"extra", "source", "generated", "text", "prompt_id", "id">>,
     <<"extra", "generated">>}

\* rows the tables given to resolve_id_conflicts are made of
ResolveRows ==
    {[id |-> IntCell(1), text |-> StrCell("hello"), original_id |-> StrCell("old")],
     [id |-> IntCell(2), text |-> StrCell("world"), original_id |-> StrCell("old")],
     [id |-> StrCell("1"), text |-> StrCell("hello"), original_id |-> StrCell("old")],
     [id |-> NaNCell, text |-> NaNCell, original_id |-> StrCell("old")]}

\* the columns the tables of one call of resolve_id_conflicts have
ResolveColumns ==
    {<<"id", "text">>, <<"text", "original_id", "id">>, <<"text">>}

RECURSIVE RowLists(_, _, _)
\* the lists of at most d row sequences with at most r rows in all
RowLists(pool, d, r) ==
    IF d = 0 THEN {<<>>}
    ELSE {<<>>} \cup
         UNION {{<<rows>> \o rest : rest \in RowLists(pool, d - 1, r - Len(rows))} :
                   rows \in SeqsUpTo(pool, r)}

\* the (table, dataset name) pairs made of the given row sequences, columns
\* and names
DatasetList(rl, columns, nm) ==
    [k \in 1..Len(rl) |-> [table |-> Frame(columns, rl[k]), name |-> nm[k]]]

\* the tables A, B and C of the merge scenarios
ScenarioA ==
    Frame(<<"id", "text", "generated">>,
          <<[id |-> IntCell(1), text |-> StrCell("hello"), generated |-> IntCell(1)]>>)
ScenarioB ==
    Frame(<<"id", "text", "generated">>,
          <<[id |-> IntCell(1), text |-> StrCell("world"), generated |-> IntCell(0)]>>)
ScenarioC ==
    Frame(<<"id", "text", "generated">>,
          <<[id |-> IntCell(2), text |-> StrCell("hello"), generated |-> IntCell(1)]>>)

\* the scenarios under the source names they are written with
ScenarioLists ==
    {<<[table |-> ScenarioA, name |-> "S1"], [table |-> ScenarioB, name |-> "S2"]>>,
     <<[table |-> ScenarioA, name |-> "S1"], [table |-> ScenarioC, name |-> "S3"]>>}

---------------------------------------------------------------------------
(* The unifier as a state machine: one call per behaviour *)

InitUnifier ==
    /\ pc = "call_merge_datasets"
    /\ \/ \E rl \in RowLists(UnifierRows, MaxDatasets, MaxTotalRows) :
             \E columns \in UnifierColumns :
                \E nm \in [1..Len(rl) -> DOMAIN ColumnMappings] :
                   datasets = DatasetList(rl, columns, nm)
       \/ datasets \in ScenarioLists
    /\ resolved_datasets = <<>>
    /\ concatenated = NoFrame
    /\ unified_df = NoFrame
    /\ standardised_df = NoFrame
    /\ ValidatorIdle

merge_datasets ==
    /\ pc = "call_merge_datasets"
    /\ LET merged == MergeDatasets(datasets)
       IN  /\ unified_df' = merged
           /\ concatenated' = IF merged.status = "returned"
                              THEN Returns(MergeConcat(datasets))
                              ELSE NoFrame
           /\ pc' = "merge_datasets_" \o merged.status
    /\ UNCHANGED <<schema, df, file, dataset_name, result,
                   datasets, resolved_datasets, standardised_df, inferVars, dirVars, saveVars, loadVars, flowVars>>

NextUnifier == merge_datasets

SpecUnifier == InitUnifier /\ [][NextUnifier]_vars

InitResolve ==
    /\ pc = "call_resolve_id_conflicts"
    /\ \E rl \in RowLists(ResolveRows, MaxDatasets, MaxTotalRows) :
          \E columns \in [1..Len(rl) -> ResolveColumns] :
             datasets = [k \in 1..Len(rl) |->
                            [table |-> Frame(columns[k], rl[k]), name |-> "S1"]]
    /\ resolved_datasets = <<>>
    /\ concatenated = NoFrame
    /\ unified_df = NoFrame
    /\ standardised_df = NoFrame
    /\ ValidatorIdle

resolve_id_conflicts ==
    /\ pc = "call_resolve_id_conflicts"
    /\ resolved_datasets' = ResolveIdConflicts(datasets)
    /\ pc' = "resolve_id_conflicts_returned"
    /\ UNCHANGED <<schema, df, file, dataset_name, result,
                   datasets, concatenated, unified_df, standardised_df, inferVars, dirVars, saveVars, loadVars, flowVars>>

NextResolve == resolve_id_conflicts

SpecResolve == InitResolve /\ [][NextResolve]_vars

---------------------------------------------------------------------------
(* standardise_dataset called on its own, and the same tables validated *)

\* DataUnifier.standardise_dataset: the table returned or the error raised
StandardiseOrRaise(t, name) ==
    IF name \notin DOMAIN ColumnMappings
    THEN Raises("No column mapping found for dataset")
    ELSE Returns(StandardiseDataset(t, name))

\* rows the tables given to standardise_dataset are made of
StandardiseRows ==
    {[id |-> IntCell(1), prompt_id |-> IntCell(0), text |-> StrCell("hello"),
      generated |-> IntCell(1), source |-> NaNCell, extra |-> StrCell("e")],
     [id |-> IntCell(2), prompt_id |-> NaNCell, text |-> StrCell("world"),
      generated |-> StrCell("abc"), source |-> StrCell("kaggle"), extra |-> StrCell("e")],
     [id |-> StrCell("a"), prompt_id |-> IntCell(1), text |-> NaNCell,
      generated |-> StrCell("1"), source |-> NoneCell, extra |-> NaNCell],
     [id |-> IntCell(3), prompt_id |-> IntCell(1), text |-> StrCell("essay"),
      generated |-> NaNCell, source |-> NaNCell, extra |-> StrCell("e")],
     [id |-> IntCell(4), prompt_id |-> IntCell(0), text |-> StrCell("text"),
      generated |-> FloatCell(1, "1.5"), source |-> NoneCell, extra |-> StrCell("e")]}

\* the columns of the tables given to standardise_dataset
StandardiseColumns ==
    {<<"id", "prompt_id", "text", "generated", "source", "extra">>,
     <<"id", "text", "generated">>,
     <<"generated", "source">>,
     <<"source", "extra", "text">>,
     <<"extra">>}

\* the source names given to standardise_dataset
StandardiseNames == {"primary_competition_data", "daigt_v2_additional_data", "S1"}

InitStandardiseDataset ==
    /\ pc = "call_standardise_dataset"
    /\ \E rows \in SeqsUpTo(StandardiseRows, MaxRows) :
          \E columns \in StandardiseColumns : df = Frame(columns, rows)
    /\ dataset_name \in {SomeStr(n) : n \in StandardiseNames}
    /\ schema = NoSchema

InitValidateStandardiseInput ==
    /\ pc = "call_validate_dataframe"
    /\ \E rows \in SeqsUpTo(StandardiseRows, MaxRows) :
          \E columns \in StandardiseColumns : df = Frame(columns, rows)
    /\ dataset_name = NoneStr
    /\ schema \in {ExpectedSchemas[n] : n \in DOMAIN ColumnMappings}

InitStandardise ==
    /\ InitStandardiseDataset \/ InitValidateStandardiseInput
    /\ file = NoFile
    /\ result = NoResult
    /\ UnifierIdle

standardise_dataset ==
    /\ pc = "call_standardise_dataset"
    /\ LET standardised == StandardiseOrRaise(df, dataset_name.v)
       IN  /\ standardised_df' = standardised
           /\ pc' = "standardise_dataset_" \o standardised.status
    /\ UNCHANGED <<schema, df, file, dataset_name, result,
                   datasets, resolved_datasets, concatenated, unified_df, inferVars, dirVars, saveVars, loadVars, flowVars>>

NextStandardise == standardise_dataset \/ validate_dataframe

SpecStandardise == InitStandardise /\ [][NextStandardise]_vars

---------------------------------------------------------------------------
(* flows.py: data_ingestion_pipeline and its tasks *)

\* the variables of the single calls modelled above
callVars == <<schema, df, file, dataset_name, result,
              datasets, resolved_datasets, concatenated, unified_df, standardised_df>>

\* DataIngestionPipeline.get_competition_datasets: the names, in order
DatasetOrder == <<"primary_competition_data", "daigt_v2_additional_data">>

\* DataIngestionPipeline.create_data_version when the clock reads t: the
\* prefix "v" followed by the timestamp, which has seconds resolution
CreateDataVersion(t) == "v" \o ToString(t)

\* what pd.read_csv gives for the downloaded file of that name
FlowTable(stem) ==
    Frame(<<"id", "prompt_id", "text", "generated">>,
          <<[id |-> StrCell(stem), prompt_id |-> IntCell(0),
             text |-> StrCell(stem), generated |-> IntCell(0)]>>)

\* a downloaded file: valid is is_valid of validate_file(file_path,
\* dataset_name) for it (the registered schemas want 1000 and 100 rows, so
\* the outcome is given with the file), load is whether pd.read_csv reads it
DownloadedFile(stem, suffix, valid, load) ==
    [stem |-> stem, suffix |-> suffix, valid |-> valid, load |-> load,
     table |-> FlowTable(stem)]

\* the files the competition download may bring
PrimaryFiles ==
    {DownloadedFile("train_essays", ".csv", TRUE, "ok"),
     DownloadedFile("train_essays", ".csv", FALSE, "ok"),
     DownloadedFile("train_essays", ".csv", FALSE, "error"),
     DownloadedFile("train_prompts", ".csv", FALSE, "ok"),
     DownloadedFile("test_essays", ".csv", TRUE, "ok"),
     DownloadedFile("notes", ".txt", FALSE, "error")}

\* the file lists the daigt download may bring: [] when the download failed
DaigtFileLists ==
    {<<>>,
     <<DownloadedFile("train_v2", ".csv", TRUE, "ok")>>,
     <<DownloadedFile("train_v2", ".csv", FALSE, "ok")>>}

\* no two files of one download have the same name
DistinctFileNames(fl) ==
    \A j, k \in 1..Len(fl) :
        (fl[j].stem = fl[k].stem /\ fl[j].suffix = fl[k].suffix) => j = k

\* download_datasets: one list of files per dataset
Downloads ==
    {[n \in Range(DatasetOrder) |->
        IF n = "primary_competition_data" THEN p ELSE d] :
        p \in {fl \in SeqsUpTo(PrimaryFiles, MaxFiles) : DistinctFileNames(fl)},
        d \in DaigtFileLists}

\* file_path.suffix.lower() in ['.csv', '.parquet']
HasTabularSuffix(f) == Lower(Chars(f.suffix)) \in {Chars(".csv"), Chars(".parquet")}

\* the ValidationResult of a file, as far as the flow reads it
FlowResult(name, valid) == [dataset_name |-> name, is_valid |-> valid]

RECURSIVE ValidateFiles(_, _)
\* validate_datasets_task, one dataset: dataset_results, one result appended
\* for each file with a tabular suffix
ValidateFiles(name, fl) ==
    IF fl = <<>> THEN <<>>
    ELSE (IF HasTabularSuffix(Head(fl)) THEN <<FlowResult(name, Head(fl).valid)>> ELSE <<>>)
         \o ValidateFiles(name, Tail(fl))

RECURSIVE ValidFiles(_, _, _)
\* unify_datasets_task: valid_files, files[i] for each valid result number i
\* (k is i + 1)
ValidFiles(fl, rs, k) ==
    IF k > Len(rs) THEN <<>>
    ELSE (IF rs[k].is_valid /\ k <= Len(fl) THEN <<fl[k]>> ELSE <<>>)
         \o ValidFiles(fl, rs, k + 1)

\* file_path.suffix.lower() == '.csv' and 'train' in file_path.name.lower()
IsTrainCsv(f) ==
    /\ Lower(Chars(f.suffix)) = Chars(".csv")
    /\ Contains(Lower(Chars(f.stem) \o Chars(f.suffix)), Chars("train"))

RECURSIVE LoadValidFiles(_, _)
\* unify_datasets_task: the loop over valid_files, (df, dataset_name)
\* appended for each train CSV that pd.read_csv reads
LoadValidFiles(name, vf) ==
    IF vf = <<>> THEN <<>>
    ELSE (IF IsTrainCsv(Head(vf)) /\ Head(vf).load = "ok"
          THEN <<[table |-> Head(vf).table, name |-> name]>> ELSE <<>>)
         \o LoadValidFiles(name, Tail(vf))

RECURSIVE DatasetsToMerge(_, _, _)
\* unify_datasets_task: datasets_to_merge after the loop over
\* downloaded_data.items()
DatasetsToMerge(order, downloaded, rs) ==
    IF order = <<>> THEN <<>>
    ELSE LoadValidFiles(Head(order),
                        ValidFiles(downloaded[Head(order)],
                                   IF Head(order) \in DOMAIN rs THEN rs[Head(order)] ELSE <<>>,
                                   1))
         \o DatasetsToMerge(Tail(order), downloaded, rs)

\* what unify_datasets_task leaves
Unified(to_merge, error, fs, made, path) ==
    [to_merge |-> to_merge, error |-> error, files |-> fs, dirs |-> made, path |-> path]

\* project_root / "data" / "processed" / f"unified_dataset_{version}"
UnifiedOutputPath(version) == Path("data/processed", "unified_dataset_" \o version, "")

\* mutant of UnifyDatasetsTask: an empty datasets_to_merge is saved as an
\* empty table
UnifyWithoutRaise(downloaded, rs, fs, made, t) ==
    LET to_merge == DatasetsToMerge(DatasetOrder, downloaded, rs)
        merged == IF to_merge = <<>> THEN Returns(Frame(<<>>, <<>>))
                  ELSE MergeDatasets(to_merge)
        saved == SaveUnifiedDataset(fs, merged.table,
                                    UnifiedOutputPath(CreateDataVersion(t)), "parquet")
    IN  Unified(to_merge, "", saved.files, made \cup {"data/processed"}, saved.saved.path)

\* unify_datasets_task when the clock reads t
UnifyDatasetsTask(downloaded, rs, fs, made, t) ==
    LET to_merge == DatasetsToMerge(DatasetOrder, downloaded, rs)
        merged == MergeDatasets(to_merge)
        saved == SaveUnifiedDataset(fs, merged.table,
                                    UnifiedOutputPath(CreateDataVersion(t)), "parquet")
    IN  IF to_merge = <<>>
        THEN Unified(to_merge, "No valid datasets found for unification", fs, made, NoPath)
        ELSE IF merged.status = "raised"
        THEN Unified(to_merge, merged.error, fs, made, NoPath)
        ELSE Unified(to_merge, "", saved.files, made \cup {"data/processed"}, saved.saved.path)

\* f"datasets/unified/{version}/{local_path.name}", by its segments
GcsPath(version, name) == <<"datasets", "unified", version, name>>

\* pd.read_parquet(path): the table of the file at path
ReadParquet(fs, path) == (CHOOSE f \in fs : f.path = path).table

\* create_metadata_task when the clock reads t: the sidecar written
CreateMetadataTask(fs, path, downloaded, t) ==
    [written |-> TRUE,
     path |-> WithSuffix(path, ".json"),
     metadata |-> [name |-> "unified_bot_detection_dataset",
                   source_datasets |-> SelectSeq(DatasetOrder,
                                                 LAMBDA n : n \in DOMAIN downloaded),
                   row_count |-> NRows(ReadParquet(fs, path)),
                   column_count |-> Len(ReadParquet(fs, path).columns),
                   version |-> CreateDataVersion(t),
                   created_at |-> t]]

\* the flow is over
FlowDone == pc \in {"data_ingestion_pipeline_returned", "data_ingestion_pipeline_raised"}

InitFlow ==
    /\ pc = "call_data_ingestion_pipeline"
    /\ FlowIdle
    /\ ValidatorCallIdle
    /\ UnifierCallIdle
    /\ InferIdle
    /\ DirIdle
    /\ SaveIdle
    /\ LoadIdle

\* time passes while the flow runs
tick ==
    /\ ~FlowDone
    /\ now < MaxClock
    /\ now' = now + 1
    /\ UNCHANGED <<pc, callVars, inferVars, dirVars, saveVars, loadVars,
                   downloaded_data, validation_results, datasets_to_merge,
                   unified_path, gcs, metadata_file, steps, flow_error>>

download_datasets_task ==
    /\ pc = "call_data_ingestion_pipeline"
    /\ downloaded_data' \in Downloads
    /\ steps' = Append(steps, "download")
    /\ pc' = "downloaded"
    /\ UNCHANGED <<callVars, inferVars, dirVars, saveVars, loadVars,
                   validation_results, datasets_to_merge, now,
                   unified_path, gcs, metadata_file, flow_error>>

validate_datasets_task ==
    /\ pc = "downloaded"
    /\ validation_results' =
          [n \in DOMAIN downloaded_data |-> ValidateFiles(n, downloaded_data[n])]
    /\ steps' = Append(steps, "validate")
    /\ pc' = "validated"
    /\ UNCHANGED <<callVars, inferVars, dirVars, saveVars, loadVars,
                   downloaded_data, datasets_to_merge, now,
                   unified_path, gcs, metadata_file, flow_error>>

\* the flow's own test, "Check if any datasets are valid"
check_valid_datasets ==
    /\ pc = "validated"
    /\ IF \E n \in DOMAIN validation_results :
             \E k \in 1..Len(validation_results[n]) : validation_results[n][k].is_valid
       THEN pc' = "checked" /\ flow_error' = flow_error
       ELSE /\ pc' = "data_ingestion_pipeline_raised"
            /\ flow_error' = "No valid datasets found after validation"
    /\ UNCHANGED <<callVars, inferVars, dirVars, saveVars, loadVars,
                   downloaded_data, validation_results, datasets_to_merge, now,
                   unified_path, gcs, metadata_file, steps>>

unify_datasets_task ==
    /\ pc = "checked"
    /\ LET unified == UnifyDatasetsTask(downloaded_data, validation_results, files, dirs, now)
       IN  /\ datasets_to_merge' = unified.to_merge
           /\ files' = unified.files
           /\ dirs' = unified.dirs
           /\ unified_path' = unified.path
           /\ flow_error' = unified.error
           /\ pc' = IF unified.error = "" THEN "unified" ELSE "data_ingestion_pipeline_raised"
    /\ steps' = Append(steps, "unify")
    /\ UNCHANGED <<callVars, inferVars, dirVars, loadVars,
                   output_path, format, df_saved, saved_path,
                   downloaded_data, validation_results, now, gcs, metadata_file>>

upload_to_gcs_task ==
    /\ pc = "unified"
    /\ steps' = Append(steps, "upload")
    /\ IF \E f \in files : f.path = unified_path
       THEN /\ gcs' = gcs \cup {[path |-> GcsPath(CreateDataVersion(now),
                                                  unified_path.stem \o unified_path.suffix),
                                 table |-> ReadParquet(files, unified_path)]}
            /\ pc' = "uploaded"
            /\ flow_error' = flow_error
       ELSE /\ gcs' = gcs
            /\ pc' = "data_ingestion_pipeline_raised"
            /\ flow_error' = "Local file not found"
    /\ UNCHANGED <<callVars, inferVars, dirVars, saveVars, loadVars,
                   downloaded_data, validation_results, datasets_to_merge, now,
                   unified_path, metadata_file>>

create_metadata_task ==
    /\ pc = "uploaded"
    /\ steps' = Append(steps, "metadata")
    /\ metadata_file' = CreateMetadataTask(files, unified_path, downloaded_data, now)
    /\ pc' = "data_ingestion_pipeline_returned"
    /\ UNCHANGED <<callVars, inferVars, dirVars, saveVars, loadVars,
                   downloaded_data, validation_results, datasets_to_merge, now,
                   unified_path, gcs, flow_error>>

NextFlow ==
    \/ tick
    \/ download_datasets_task
    \/ validate_datasets_task
    \/ check_valid_datasets
    \/ unify_datasets_task
    \/ upload_to_gcs_task
    \/ create_metadata_task

SpecFlow == InitFlow /\ [][NextFlow]_vars

---------------------------------------------------------------------------
(* Properties of the unifier *)

MergeReturned == pc = "merge_datasets_returned"
MergeEnded == pc \in {"merge_datasets_returned", "merge_datasets_raised"}

\* the tables of the call are exactly these, in this order
TablesAre(tables) ==
    /\ Len(datasets) = Len(tables)
    /\ \A k \in 1..Len(tables) : datasets[k].table = tables[k]

\* the source names of the call are exactly these, in this order
NamesAre(names) ==
    /\ Len(datasets) = Len(names)
    /\ \A k \in 1..Len(names) : datasets[k].name = names[k]

\* C2 as stated: merging A tagged "S1" and B tagged "S2" returns exactly two
\* rows, with ids "01_1" and "02_1".
C2_ScenarioS1S2 ==
    (MergeEnded /\ TablesAre(<<ScenarioA, ScenarioB>>) /\ NamesAre(<<"S1", "S2">>))
    => /\ unified_df.status = "returned"
       /\ NRows(unified_df.table) = 2
       /\ unified_df.table.data["id"] = <<StrCell("01_1"), StrCell("02_1")>>

\* C2 amended: merging A and B tagged with source names that have a column
\* mapping returns exactly two rows, with ids "01_1" and "02_1"; tagged "S1"
\* and "S2", which have none, merge raises and returns no table.
C2_ScenarioMappedNames ==
    (MergeEnded /\ TablesAre(<<ScenarioA, ScenarioB>>))
    => IF \A k \in 1..2 : datasets[k].name \in DOMAIN ColumnMappings
       THEN /\ unified_df.status = "returned"
            /\ NRows(unified_df.table) = 2
            /\ unified_df.table.data["id"] = <<StrCell("01_1"), StrCell("02_1")>>
            /\ unified_df.table.data["text"] = <<StrCell("hello"), StrCell("world")>>
       ELSE unified_df.status = "raised"

\* C2 witness: A and B have been merged under the two mapped names.
C2_Witness ==
    /\ MergeReturned
    /\ TablesAre(<<ScenarioA, ScenarioB>>)
    /\ NamesAre(<<"primary_competition_data", "daigt_v2_additional_data">>)
    /\ NRows(unified_df.table) = 2

\* the tables of the call that have an id column
WithId == {k \in 1..Len(datasets) : "id" \in ColumnSet(datasets[k].table)}

\* the (table, row) positions of the ids resolve_id_conflicts rewrote
IdPositions == UNION {{<<k, r>> : r \in 1..NRows(datasets[k].table)} : k \in WithId}

\* C3 as stated: after resolve_id_conflicts on tables that each have an id
\* column no two rows, of the same or of different tables, share an id, and
\* original_id is each row's id before the call.
C3_GloballyUniqueIds ==
    (pc = "resolve_id_conflicts_returned" /\ WithId = 1..Len(datasets))
    => /\ \A p, q \in IdPositions :
             p # q => resolved_datasets[p[1]].table.data["id"][p[2]]
                      # resolved_datasets[q[1]].table.data["id"][q[2]]
       /\ \A k \in WithId :
             resolved_datasets[k].table.data["original_id"]
             = datasets[k].table.data["id"]

\* C3 amended: after resolve_id_conflicts rows of different tables never share
\* an id; two rows of one table share an id exactly when their ids before the
\* call had the same text; and original_id is each row's id before the call.
C3_UniqueAcrossTables ==
    pc = "resolve_id_conflicts_returned"
    => /\ \A p, q \in IdPositions :
             LET before(x) == AsTypeStr(datasets[x[1]].table.data["id"])[x[2]]
                 after(x) == resolved_datasets[x[1]].table.data["id"][x[2]]
             IN  /\ p[1] # q[1] => after(p) # after(q)
                 /\ p[1] = q[1] => (after(p) = after(q) <=> before(p) = before(q))
       /\ \A k \in WithId :
             resolved_datasets[k].table.data["original_id"]
             = datasets[k].table.data["id"]

\* C3 witness: two tables with an id column that hold the same id have been
\* resolved.
C3_Witness ==
    /\ pc = "resolve_id_conflicts_returned"
    /\ WithId = {1, 2}
    /\ NRows(datasets[1].table) > 0
    /\ NRows(datasets[2].table) > 0
    /\ datasets[1].table.data["id"][1] = datasets[2].table.data["id"][1]

\* the first row of table t whose text is the given one
FirstWithText(t, text) ==
    CHOOSE k \in 1..NRows(t) :
        /\ t.data["text"][k] = text
        /\ \A j \in 1..(k - 1) : t.data["text"][j] # text

\* the text each input row has once standardised, table after table in input
\* order: a table without text column holds "None", one none of whose columns
\* is mapped contributes no row
RECURSIVE StandardisedTexts(_)
StandardisedTexts(ds) ==
    IF ds = <<>> THEN <<>>
    ELSE LET t == Head(ds).table
             mapping == ColumnMappings[Head(ds).name]
             mapped == {mapping[k][2] : k \in 1..Len(mapping)} \cap ColumnSet(t)
         IN  (IF "text" \in ColumnSet(t) THEN AsTypeStr(t.data["text"])
              ELSE IF mapped # {} THEN [k \in 1..NRows(t) |-> StrCell("None")]
              ELSE <<>>)
             \o StandardisedTexts(Tail(ds))

\* C4: merge returns no two rows with the same text; every distinct text of
\* the standardised inputs appears exactly once; the row kept for a text is
\* the first one with it in the concatenation of the inputs (earliest table,
\* earliest row); and the kept rows are in the order of the concatenation.
C4_DedupKeepsFirst ==
    MergeReturned
    => LET c == concatenated.table
           u == unified_df.table
       IN  /\ c.data["text"] = StandardisedTexts(datasets)
           /\ \A i, j \in 1..NRows(u) : i # j => u.data["text"][i] # u.data["text"][j]
           /\ Range(u.data["text"]) = Range(c.data["text"])
           /\ \A i \in 1..NRows(u) : \A col \in ColumnSet(c) :
                 u.data[col][i] = c.data[col][FirstWithText(c, u.data["text"][i])]
           /\ \A i, j \in 1..NRows(u) :
                 i < j => FirstWithText(c, u.data["text"][i])
                          < FirstWithText(c, u.data["text"][j])

\* C4 witness: a text held by two tables has been merged, and two rows were
\* kept and one dropped.
C4_Witness ==
    /\ MergeReturned
    /\ Len(datasets) = 2
    /\ NRows(datasets[1].table) > 0
    /\ NRows(datasets[2].table) > 0
    /\ "text" \in ColumnSet(datasets[1].table)
    /\ \E r \in 1..NRows(datasets[2].table) :
          datasets[2].table.data["text"][r] = datasets[1].table.data["text"][1]
    /\ NRows(concatenated.table) = 3
    /\ NRows(unified_df.table) = 2

\* C5: merging (T, n) twice returns as many rows as merging it once.
C5_MergeTwiceSameRowCount ==
    (MergeReturned /\ Len(datasets) = 1)
    => LET twice == MergeDatasets(datasets \o datasets)
       IN  /\ twice.status = "returned"
           /\ NRows(twice.table) = NRows(unified_df.table)

\* C5 witness: one table with several distinct texts has been merged alone.
C5_Witness ==
    /\ MergeReturned
    /\ Len(datasets) = 1
    /\ NRows(unified_df.table) >= 2

\* C6 as stated: merging A (source "S1") followed by C (source "S3") yields
\* two rows, A's "hello" row among them and C's dropped.
C6_ScenarioS1S3 ==
    (MergeEnded /\ TablesAre(<<ScenarioA, ScenarioC>>) /\ NamesAre(<<"S1", "S3">>))
    => /\ unified_df.status = "returned"
       /\ NRows(unified_df.table) = 2
       /\ StrCell("01_1") \in Range(unified_df.table.data["id"])
       /\ StrCell("02_2") \notin Range(unified_df.table.data["id"])

\* C6 amended: merging A followed by C, tagged with source names that have a
\* column mapping, yields one row, A's copy of "hello" (id "01_1"), C's row
\* being dropped; tagged "S1" and "S3" merge raises and returns no table.
C6_ScenarioKeepsA ==
    (MergeEnded /\ TablesAre(<<ScenarioA, ScenarioC>>))
    => IF \A k \in 1..2 : datasets[k].name \in DOMAIN ColumnMappings
       THEN /\ unified_df.status = "returned"
            /\ NRows(unified_df.table) = 1
            /\ unified_df.table.data["id"] = <<StrCell("01_1")>>
            /\ unified_df.table.data["original_id"] = <<StrCell("1")>>
            /\ unified_df.table.data["text"] = <<StrCell("hello")>>
       ELSE unified_df.status = "raised"

\* C6 witness: A and then C have been merged under mapped names.
C6_Witness ==
    /\ MergeReturned
    /\ TablesAre(<<ScenarioA, ScenarioC>>)
    /\ NRows(concatenated.table) = 2
    /\ NRows(unified_df.table) = 1

\* C18: merge_datasets given no table raises "No datasets provided for
\* merging" and returns no table; nothing has been standardised, resolved or
\* concatenated.
C18_EmptyInputRaises ==
    (MergeEnded /\ datasets = <<>>)
    => /\ pc = "merge_datasets_raised"
       /\ unified_df = Raises("No datasets provided for merging")
       /\ concatenated = NoFrame
       /\ resolved_datasets = <<>>
       /\ standardised_df = NoFrame

\* C18 witness: merge_datasets has been called with an empty list and raised.
C18_Witness ==
    /\ pc = "merge_datasets_raised"
    /\ datasets = <<>>
    /\ unified_df.status = "raised"
    /\ unified_df.error = "No datasets provided for merging"

RECURSIVE InputExtras(_)
\* the columns of the input tables that are no standard column, in order of
\* first appearance
InputExtras(ds) ==
    IF ds = <<>> THEN <<>>
    ELSE LET before == InputExtras(SubSeq(ds, 1, Len(ds) - 1))
         IN  before \o SelectSeq(ds[Len(ds)].table.columns,
                                 LAMBDA c : c \notin Range(StandardColumns)
                                            /\ c \notin Range(before))

\* C7 as stated: the columns of the merged table are the standard columns in
\* canonical order followed by every other column of the input tables, in
\* their original order.
C7_ExtrasOfInputsFollow ==
    MergeReturned
    => LET cols == unified_df.table.columns
       IN  /\ SubSeq(cols, 1, 5) = StandardColumns
           /\ Restrict(SubSeq(cols, 6, Len(cols)), Range(InputExtras(datasets)))
              = InputExtras(datasets)

\* C7 amended: the columns of the merged table are always exactly id,
\* prompt_id, text, generated, source, in that order, followed by
\* original_id; the other columns of the input tables are not in it.
C7_StandardThenOriginalId ==
    MergeReturned
    => /\ unified_df.table.columns = StandardColumns \o <<"original_id">>
       /\ DOMAIN unified_df.table.data = Range(unified_df.table.columns)

\* C7 witness: tables with an extra column, and lacking standard columns,
\* have been merged.
C7_Witness ==
    /\ MergeReturned
    /\ Len(datasets) = 2
    /\ datasets[1].table.columns = <<"extra", "generated">>
    /\ NRows(unified_df.table) > 0

---------------------------------------------------------------------------
(* Properties of save_unified_dataset *)

\* the extension a requested format stands for, "" for any other format
ExtensionOf(fmt) ==
    IF fmt \in {"parquet", "Parquet", "PARQUET"} THEN ".parquet"
    ELSE IF fmt \in {"csv", "CSV"} THEN ".csv"
    ELSE ""

\* the text of the path ends with the extension
HasExtension(path, ext) ==
    path.suffix = ext \/ (path.suffix = "" /\ path.stem = ext)

\* C23: save returns a path whose extension is that of the requested format
\* (.parquet or .csv) whatever extension was passed in, a path in the same
\* directory, and writes the table exactly there, leaving every other file
\* as it was; any other format raises the unsupported-format error and
\* writes no data file.
C23_SavedUnderFormatExtension ==
    [][pc = "call_save_unified_dataset"
       => IF ExtensionOf(format) # ""
          THEN /\ saved_path'.status = "returned"
               /\ HasExtension(saved_path'.path, ExtensionOf(format))
               /\ saved_path'.path.parent = output_path.parent
               /\ {f \in files' : f.path = saved_path'.path}
                     = {[path |-> saved_path'.path,
                         encoding |-> IF ExtensionOf(format) = ".csv" THEN "csv" ELSE "parquet",
                         table |-> df_saved]}
               /\ {f \in files' : f.path # saved_path'.path}
                     = {f \in files : f.path # saved_path'.path}
          ELSE /\ saved_path' = SaveRaises("Unsupported format: " \o format)
               /\ files' = files]_vars

\* a table saved as CSV under a path given with the .parquet extension
C23_Witness ==
    /\ pc = "save_unified_dataset_returned"
    /\ format = "CSV"
    /\ output_path.suffix = ".parquet"
    /\ saved_path.status = "returned"
    /\ saved_path.path = Path(output_path.parent, output_path.stem, ".csv")
    /\ df_saved.index > 0
    /\ \E f \in files : f.path = saved_path.path /\ f.table = df_saved

---------------------------------------------------------------------------
(* Properties of load_datasets_from_directory *)

\* the candidate files of a subdirectory, by the rank of the best pattern
\* they match: 1 "train_essay", 2 "*train*", 3 any delimited-text file
PatternRank(f) ==
    IF f.suffix # ".csv" THEN 0
    ELSE IF f.stem \in {"train_essays"} THEN 1
    ELSE IF f.stem \in {"train_prompts", "essays_train"} THEN 2
    ELSE 3
Candidates(sub) == {f \in tree : f.subdir = sub /\ PatternRank(f) > 0}
BestCandidates(sub) ==
    {f \in Candidates(sub) : \A g \in Candidates(sub) : PatternRank(f) <= PatternRank(g)}

\* the subdirectories that contributed an entry
LoadedNames == {loaded[k][2] : k \in 1..Len(loaded)}

\* C24: load_from_directory loads for each immediate subdirectory exactly one
\* file, one matching "train_essay" if any, otherwise one matching "*train*",
\* otherwise any delimited-text file; a subdirectory with no candidate file
\* or whose chosen file fails to load contributes no entry, and the other
\* subdirectories are loaded all the same.
C24_OneBestFilePerSubdirectory ==
    pc = "load_datasets_from_directory_returned"
    => /\ LoadedNames \subseteq subdirs
       /\ \A j, k \in 1..Len(loaded) : loaded[j][2] = loaded[k][2] => j = k
       /\ \A k \in 1..Len(loaded) :
             \E f \in BestCandidates(loaded[k][2]) : f.load = "ok" /\ loaded[k][1] = f.table
       /\ \A sub \in subdirs :
             /\ Candidates(sub) = {} => sub \notin LoadedNames
             /\ (\A f \in BestCandidates(sub) : f.load = "error") => sub \notin LoadedNames
             /\ (Candidates(sub) # {} /\ \A f \in BestCandidates(sub) : f.load = "ok")
                   => sub \in LoadedNames

\* a subdirectory's train_essays.csv is loaded rather than its loadable
\* train_prompts.csv, and an empty subdirectory next to it gives no entry
C24_Witness ==
    /\ pc = "load_datasets_from_directory_returned"
    /\ \E f \in tree : f.subdir = "primary_competition_data" /\ f.stem = "train_prompts"
                       /\ f.suffix = ".csv" /\ f.load = "ok"
    /\ "daigt_v2_additional_data" \in subdirs
    /\ loaded = <<<<TableOf("train_essays", ".csv"), "primary_competition_data">>>>

---------------------------------------------------------------------------
(* Properties of standardise_dataset *)

StandardiseReturned == pc = "standardise_dataset_returned"

\* a text that spells no number
NonNumericText(c) == c.t = "str" /\ \A n \in 0..9 : ToString(n) # c.s

\* the table has the column that the mapping of the source name renames to
\* the given standard column
InputHas(t, name, standard_col) ==
    \E k \in 1..Len(ColumnMappings[name]) :
        /\ ColumnMappings[name][k][1] = standard_col
        /\ ColumnMappings[name][k][2] \in ColumnSet(t)

\* what C15 says of validation: a table whose generated column holds a
\* non-numeric text, validated against a schema that declares generated as
\* int64, is invalid and has a type-mismatch error for generated
GeneratedTypeMismatchReported ==
    (/\ pc = "validate_dataframe_returned"
     /\ "generated" \in CheckedColumns
     /\ GetColumnSchema(schema, "generated").dtype = "int64"
     /\ \E k \in 1..NRows(df) : NonNumericText(df.data["generated"][k]))
    => /\ ~result.is_valid
       /\ ErrorsOfKind("generated", "dtype") = 1

\* C15 as stated: validation reports the type mismatch; standardise turns
\* every non-numeric text and every missing value of generated into 0 and
\* keeps numeric values.
C15_NumericValuesKept ==
    /\ GeneratedTypeMismatchReported
    /\ (StandardiseReturned /\ "generated" \in ColumnSet(df))
       => LET out == standardised_df.table
          IN  /\ NRows(out) = NRows(df)
              /\ \A k \in 1..NRows(df) :
                    LET c == df.data["generated"][k]
                    IN  IF NonNumericText(c) \/ c.t \in {"nan", "none"}
                        THEN out.data["generated"][k] = IntCell(0)
                        ELSE IF c.t = "str"
                        THEN \E n \in 0..9 : /\ ToString(n) = c.s
                                             /\ out.data["generated"][k] = IntCell(n)
                        ELSE out.data["generated"][k] = c

\* C15 amended: validation reports the type mismatch; standardise, under a
\* source name that has a column mapping, turns every non-numeric text and
\* every missing value of generated into 0, keeps integers and texts that
\* spell an integer (as integers), and cuts the fractional part off any other
\* number (1.5 becomes 1).
C15_IntegersKeptFractionsCut ==
    /\ GeneratedTypeMismatchReported
    /\ (StandardiseReturned /\ "generated" \in ColumnSet(df))
       => LET out == standardised_df.table
          IN  /\ NRows(out) = NRows(df)
              /\ \A k \in 1..NRows(df) :
                    LET c == df.data["generated"][k]
                    IN  IF NonNumericText(c) \/ c.t \in {"nan", "none"}
                        THEN out.data["generated"][k] = IntCell(0)
                        ELSE IF c.t = "str"
                        THEN \E n \in 0..9 : /\ ToString(n) = c.s
                                             /\ out.data["generated"][k] = IntCell(n)
                        ELSE IF c.t = "float"
                        THEN out.data["generated"][k] = IntCell(c.i)
                        ELSE out.data["generated"][k] = c
    /\ (pc = "standardise_dataset_raised") => dataset_name.v \notin DOMAIN ColumnMappings

\* C15 witness: a table whose generated column holds the text "abc" next to
\* the integer 1 has been standardised to 0 and 1.
C15_Witness ==
    /\ StandardiseReturned
    /\ "generated" \in ColumnSet(df)
    /\ StrCell("abc") \in Range(df.data["generated"])
    /\ IntCell(1) \in Range(df.data["generated"])
    /\ Range(standardised_df.table.data["generated"]) = {IntCell(0), IntCell(1)}

\* C16 as stated: after standardise the source column holds the literal
\* source name in every row whenever the input has no mapped source column,
\* and also whenever the mapped source column is entirely null.
C16_SourceIsLiteralName ==
    StandardiseReturned
    => LET out == standardised_df.table
       IN  (\/ ~InputHas(df, dataset_name.v, "source")
            \/ \A k \in 1..NRows(df) : df.data["source"][k].t \in {"nan", "none"})
           => /\ "source" \in ColumnSet(out)
              /\ \A k \in 1..NRows(out) : out.data["source"][k] = StrCell(dataset_name.v)

\* C17 as stated: after standardise each of id, prompt_id, text that the
\* input lacked is in the output and holds the missing marker, no text, in
\* every row; and the output has as many rows as the input.
C17_AbsentColumnsHoldNull ==
    StandardiseReturned
    => LET out == standardised_df.table
       IN  /\ \A c \in {"id", "prompt_id", "text"} :
                 ~InputHas(df, dataset_name.v, c)
                 => /\ c \in ColumnSet(out)
                    /\ \A k \in 1..NRows(out) : out.data[c][k].t \in {"nan", "none"}
           /\ NRows(out) = NRows(df)

---------------------------------------------------------------------------
(* Properties of the pipeline *)

\* the task has been started in this run
Started(task) == \E k \in 1..Len(steps) : steps[k] = task

\* the files of a dataset whose own ValidationResult is valid
ValidatedFiles(n) ==
    {f \in Range(downloaded_data[n]) : f.suffix \in {".csv", ".parquet"} /\ f.valid}

\* the valid train CSV files of a dataset
ValidTrainCsvFiles(n) ==
    {f \in ValidatedFiles(n) :
        f.suffix = ".csv" /\ f.stem \in {"train_essays", "train_prompts", "train_v2"}}

\* C25 as stated: every table unify_datasets_task passes to merge was read
\* from a file of that dataset whose own ValidationResult is valid, also
\* when the downloaded list mixes CSV files with other files; and every
\* valid train CSV file is among the merged inputs.
C25_MergedTablesAreTheValidTrainFiles ==
    Started("unify")
    => /\ \A k \in 1..Len(datasets_to_merge) :
             \E f \in ValidatedFiles(datasets_to_merge[k].name) :
                f.table = datasets_to_merge[k].table
       /\ \A n \in DOMAIN downloaded_data :
             \A f \in ValidTrainCsvFiles(n) :
                \E k \in 1..Len(datasets_to_merge) :
                   datasets_to_merge[k] = [table |-> f.table, name |-> n]

\* C26 as stated: within one run the version is the same in the unified
\* file's name, in the GCS upload path and in the metadata record, however
\* much time passes between the unify, upload and metadata tasks.
C26_OneVersionPerRun ==
    /\ \A o \in gcs : unified_path.stem = "unified_dataset_" \o o.path[3]
    /\ metadata_file.written
       => /\ unified_path.stem = "unified_dataset_" \o metadata_file.metadata.version
          /\ \A o \in gcs : o.path[3] = metadata_file.metadata.version

\* the order of the tasks of the flow
FlowOrder == <<"download", "validate", "unify", "upload", "metadata">>

\* validation ended without one valid result
NoValidResult ==
    /\ Started("validate")
    /\ \A n \in DOMAIN validation_results :
          \A k \in 1..Len(validation_results[n]) : ~validation_results[n][k].is_valid

\* nothing was uploaded and no metadata file was written
NothingPublished ==
    /\ gcs = {}
    /\ ~metadata_file.written
    /\ ~Started("upload")
    /\ ~Started("metadata")

\* C27: the tasks start in the order download, validate, unify, upload,
\* metadata; when no dataset has a valid validation result, or when no
\* table could be loaded for merging, the flow raises, nothing is uploaded
\* and no metadata file is written.
C27_OrderedAndRaisedBeforePublishing ==
    /\ Len(steps) <= Len(FlowOrder)
    /\ steps = SubSeq(FlowOrder, 1, Len(steps))
    /\ NoValidResult
       => /\ pc \in {"validated", "data_ingestion_pipeline_raised"}
          /\ ~Started("unify")
          /\ NothingPublished
    /\ (Started("unify") /\ datasets_to_merge = <<>>)
       => /\ pc = "data_ingestion_pipeline_raised"
          /\ flow_error = "No valid datasets found for unification"
          /\ NothingPublished
    /\ pc = "data_ingestion_pipeline_raised" => NothingPublished
    /\ pc = "data_ingestion_pipeline_returned" => steps = FlowOrder

\* the flow raised in unify_datasets_task: a dataset had a valid result but
\* no table could be loaded for merging
C27_Witness ==
    /\ pc = "data_ingestion_pipeline_raised"
    /\ steps = <<"download", "validate", "unify">>
    /\ \E n \in DOMAIN validation_results :
          \E k \in 1..Len(validation_results[n]) : validation_results[n][k].is_valid
    /\ datasets_to_merge = <<>>
    /\ gcs = {}

\* C28 as stated: the sidecar sits at the unified file's path with the
\* extension replaced by .json, its row_count and column_count are those of
\* the saved unified table, and its source_datasets are exactly the
\* datasets whose tables were merged.
C28_SidecarDescribesTheMerge ==
    metadata_file.written
    => /\ metadata_file.path = Path(unified_path.parent, unified_path.stem, ".json")
       /\ \E f \in files :
             /\ f.path = unified_path
             /\ metadata_file.metadata.row_count = NRows(f.table)
             /\ metadata_file.metadata.column_count = Len(f.table.columns)
       /\ Range(metadata_file.metadata.source_datasets)
             = {datasets_to_merge[k].name : k \in 1..Len(datasets_to_merge)}

====
